---- MODULE Spec2Model ----
(***************************************************************************)
(* Tape cartridge codec (src/utils/tapeUtils.ts) and the TV room's eject   *)
(* and drop handlers (src/pages/TVRoom.tsx).                               *)
(*                                                                         *)
(* Representation.  A byte buffer (Uint8Array) is a sequence of numbers    *)
(* 0..255; JavaScript index i is TLA+ index i+1.  A JavaScript string is a *)
(* sequence of UTF-16 code units.  A JSON value is a record with a tag t   *)
(* and the fields n (number), s (string), keys and kids (members).  A      *)
(* 32-bit machine word is the tuple of its four bytes; the JavaScript      *)
(* number an int32 operator yields is its signed reading.                  *)
(***************************************************************************)
EXTENDS Integers, Sequences, FiniteSets, TLC

(***************************************************************************)
(* Bounds of the model.                                                    *)
(***************************************************************************)
MaxMid == 2

--------------------------------------------------------------------------
(***************************************************************************)
(* Typed-array primitives.                                                 *)
(***************************************************************************)
Undef == -1

\* uint8[i]: the byte at JavaScript index i, undefined outside the buffer.
At(buf, i) ==
    IF i >= 0 /\ i < Len(buf) THEN buf[i + 1] ELSE Undef

\* ToInt32/ToUint32 of an element read: undefined converts to 0.
U(b) ==
    IF b = Undef THEN 0 ELSE b

\* TypedArray.prototype.slice(start, end): negative indices count from the
\* end, both are clamped to the buffer, an empty range yields no bytes.
Slice(buf, start, end) ==
    LET n == Len(buf)
        k == IF start < 0 THEN (IF n + start > 0 THEN n + start ELSE 0)
                          ELSE (IF start < n THEN start ELSE n)
        f == IF end < 0 THEN (IF n + end > 0 THEN n + end ELSE 0)
                        ELSE (IF end < n THEN end ELSE n)
    IN  IF f > k THEN SubSeq(buf, k + 1, f) ELSE <<>>

\* (x >>> k) & 0xff for an int32 x.
ByteOf(x, k) ==
    (x \div (2 ^ k)) % 256

\* (b0 << 24) | (b1 << 16) | (b2 << 8) | b3 : a signed 32-bit result.
Int32OfBytes(b0, b1, b2, b3) ==
    (IF U(b0) >= 128 THEN U(b0) - 256 ELSE U(b0)) * 16777216
        + U(b1) * 65536 + U(b2) * 256 + U(b3)

--------------------------------------------------------------------------
(***************************************************************************)
(* 32-bit words: <<b3, b2, b1, b0>>, b3 the most significant byte.         *)
(***************************************************************************)
\* Exclusive or of two 4-bit numbers: XorNibble[a + 1][b + 1].
XorNibble ==
    <<<<0, 1, 2, 3, 4, 5, 6, 7, 8, 9, 10, 11, 12, 13, 14, 15>>,
      <<1, 0, 3, 2, 5, 4, 7, 6, 9, 8, 11, 10, 13, 12, 15, 14>>,
      <<2, 3, 0, 1, 6, 7, 4, 5, 10, 11, 8, 9, 14, 15, 12, 13>>,
      <<3, 2, 1, 0, 7, 6, 5, 4, 11, 10, 9, 8, 15, 14, 13, 12>>,
      <<4, 5, 6, 7, 0, 1, 2, 3, 12, 13, 14, 15, 8, 9, 10, 11>>,
      <<5, 4, 7, 6, 1, 0, 3, 2, 13, 12, 15, 14, 9, 8, 11, 10>>,
      <<6, 7, 4, 5, 2, 3, 0, 1, 14, 15, 12, 13, 10, 11, 8, 9>>,
      <<7, 6, 5, 4, 3, 2, 1, 0, 15, 14, 13, 12, 11, 10, 9, 8>>,
      <<8, 9, 10, 11, 12, 13, 14, 15, 0, 1, 2, 3, 4, 5, 6, 7>>,
      <<9, 8, 11, 10, 13, 12, 15, 14, 1, 0, 3, 2, 5, 4, 7, 6>>,
      <<10, 11, 8, 9, 14, 15, 12, 13, 2, 3, 0, 1, 6, 7, 4, 5>>,
      <<11, 10, 9, 8, 15, 14, 13, 12, 3, 2, 1, 0, 7, 6, 5, 4>>,
      <<12, 13, 14, 15, 8, 9, 10, 11, 4, 5, 6, 7, 0, 1, 2, 3>>,
      <<13, 12, 15, 14, 9, 8, 11, 10, 5, 4, 7, 6, 1, 0, 3, 2>>,
      <<14, 15, 12, 13, 10, 11, 8, 9, 6, 7, 4, 5, 2, 3, 0, 1>>,
      <<15, 14, 13, 12, 11, 10, 9, 8, 7, 6, 5, 4, 3, 2, 1, 0>>>>

XorByte(a, b) ==
    16 * XorNibble[(a \div 16) + 1][(b \div 16) + 1]
        + XorNibble[(a % 16) + 1][(b % 16) + 1]

Xor(a, b) ==
    <<XorByte(a[1], b[1]), XorByte(a[2], b[2]),
      XorByte(a[3], b[3]), XorByte(a[4], b[4])>>

\* a >>> 1
Shr1(a) ==
    <<a[1] \div 2,
      (a[2] \div 2) + 128 * (a[1] % 2),
      (a[3] \div 2) + 128 * (a[2] % 2),
      (a[4] \div 2) + 128 * (a[3] % 2)>>

\* a >>> 8
Shr8(a) ==
    <<0, a[1], a[2], a[3]>>

\* The JavaScript number a bitwise operator returns: the signed reading.
ToInt32(a) ==
    Int32OfBytes(a[1], a[2], a[3], a[4])

--------------------------------------------------------------------------
(***************************************************************************)
(* CRC-32.  The table is module state: it is filled when the module is     *)
(* loaded (Init) and read by every crc32 call.                             *)
(***************************************************************************)
VARIABLE crcTable      \* crcTable[n] of the code is crcTable[n + 1]

Poly == <<237, 184, 131, 32>>          \* 0xedb88320

AllOnes == <<255, 255, 255, 255>>      \* 0xffffffff

\* The inner loop over k: 8 rounds on c.
RECURSIVE TableRounds(_, _)
TableRounds(c, k) ==
    IF k = 0 THEN c
    ELSE TableRounds(IF c[4] % 2 = 1 THEN Xor(Poly, Shr1(c)) ELSE Shr1(c), k - 1)

\* The outer loop over n: the entries lo .. hi - 1, in index order.
RECURSIVE TableFrom(_, _)
TableFrom(lo, hi) ==
    IF hi - lo = 1 THEN <<TableRounds(<<0, 0, 0, lo>>, 8)>>
    ELSE TableFrom(lo, (lo + hi) \div 2) \o TableFrom((lo + hi) \div 2, hi)

\* The body of crc32's loop for one byte.
CrcStep(c, byte) ==
    Xor(crcTable[XorByte(c[4], byte) + 1], Shr8(c))

\* The loop over i from lo to hi (indices of buf), run as its first half
\* and then, from the word c1 that half leaves, its second half.
RECURSIVE CrcLoop(_, _, _, _)
CrcLoop(c, buf, lo, hi) ==
    IF lo > hi THEN c
    ELSE IF lo = hi THEN CrcStep(c, buf[lo])
    ELSE LET c1 == CrcLoop(c, buf, lo, (lo + hi) \div 2)
         IN  IF Len(c1) = 4
             THEN CrcLoop(c1, buf, ((lo + hi) \div 2) + 1, hi)
             ELSE c1

\* A faulty crc32 that leaves out the final c ^ 0xffffffff.
crc32NoFinalXor(buf) ==
    ToInt32(CrcLoop(AllOnes, buf, 1, Len(buf)))

crc32(buf) ==
    ToInt32(Xor(CrcLoop(AllOnes, buf, 1, Len(buf)), AllOnes))

--------------------------------------------------------------------------
(***************************************************************************)
(* TextEncoder / TextDecoder (UTF-8).                                      *)
(***************************************************************************)
ReplacementChar == 65533

\* One scalar value as UTF-8.
Utf8Of(cp) ==
    IF cp < 128 THEN <<cp>>
    ELSE IF cp < 2048 THEN <<192 + (cp \div 64), 128 + (cp % 64)>>
    ELSE IF cp < 65536
         THEN <<224 + (cp \div 4096), 128 + ((cp \div 64) % 64), 128 + (cp % 64)>>
    ELSE <<240 + (cp \div 262144), 128 + ((cp \div 4096) % 64),
           128 + ((cp \div 64) % 64), 128 + (cp % 64)>>

IsHighSurrogate(u) == u >= 55296 /\ u <= 56319

IsLowSurrogate(u) == u >= 56320 /\ u <= 57343

\* The bytes the encoder emits for the code unit at index i: a surrogate
\* pair is one scalar value, emitted at its first unit; a lone surrogate
\* is encoded as U+FFFD.
EncodeAt(text, i) ==
    LET u == text[i] IN
    IF IsHighSurrogate(u) /\ i < Len(text) /\ IsLowSurrogate(text[i + 1])
    THEN Utf8Of(65536 + ((u - 55296) * 1024) + (text[i + 1] - 56320))
    ELSE IF IsLowSurrogate(u) /\ i > 1 /\ IsHighSurrogate(text[i - 1])
    THEN <<>>
    ELSE IF IsHighSurrogate(u) \/ IsLowSurrogate(u)
    THEN Utf8Of(ReplacementChar)
    ELSE Utf8Of(u)

RECURSIVE EncodeRange(_, _, _)
EncodeRange(text, lo, hi) ==
    IF lo > hi THEN <<>>
    ELSE IF lo = hi THEN EncodeAt(text, lo)
    ELSE EncodeRange(text, lo, (lo + hi) \div 2)
             \o EncodeRange(text, ((lo + hi) \div 2) + 1, hi)

\* new TextEncoder().encode(text)
textToBytes(text) ==
    EncodeRange(text, 1, Len(text))

\* A decoded scalar value as UTF-16 code units.
Utf16Of(cp) ==
    IF cp < 65536 THEN <<cp>>
    ELSE <<55296 + ((cp - 65536) \div 1024), 56320 + ((cp - 65536) % 1024)>>

(***************************************************************************)
(* The UTF-8 decoder of the Encoding standard, position by position.  A    *)
(* lead byte (C2..F4) announces 1 to 3 continuation bytes; the first has   *)
(* a range that depends on the lead, the others are 80..BF.  A lead with   *)
(* all its continuation bytes yields its scalar value; a lead with fewer   *)
(* yields one U+FFFD for the bytes that were accepted; any other byte      *)
(* that no lead accepted yields U+FFFD.  Lead bytes are never              *)
(* continuation bytes, so what a byte yields depends on at most three      *)
(* bytes before it and three after it.                                     *)
(***************************************************************************)
Needed(x) ==
    IF x >= 194 /\ x <= 223 THEN 1
    ELSE IF x >= 224 /\ x <= 239 THEN 2
    ELSE IF x >= 240 /\ x <= 244 THEN 3
    ELSE 0

\* Whether y may be the k-th byte after the lead byte x.
ContinuationOk(x, k, y) ==
    /\ y >= (IF k > 1 THEN 128 ELSE IF x = 224 THEN 160 ELSE IF x = 240 THEN 144 ELSE 128)
    /\ y <= (IF k > 1 THEN 191 ELSE IF x = 237 THEN 159 ELSE IF x = 244 THEN 143 ELSE 191)

\* The number of continuation bytes the lead at index i accepts.
Accepted(b, i) ==
    LET ok(k) == i + k <= Len(b) /\ ContinuationOk(b[i], k, b[i + k])
    IN  IF Needed(b[i]) >= 1 /\ ok(1)
        THEN IF Needed(b[i]) >= 2 /\ ok(2)
             THEN IF Needed(b[i]) >= 3 /\ ok(3) THEN 3 ELSE 2
             ELSE 1
        ELSE 0

\* Whether the byte at index i was accepted by a lead at from or later.
Continues(b, i, from) ==
    \E d \in 1 .. 3 :
        i - d >= from /\ Needed(b[i - d]) >= d /\ Accepted(b, i - d) >= d

DecodeAt(b, i, from) ==
    LET x == b[i]
        need == Needed(x)
    IN  IF x <= 127 THEN <<x>>
        ELSE IF need > 0 THEN
             IF Accepted(b, i) < need THEN <<ReplacementChar>>
             ELSE IF need = 1 THEN Utf16Of(((x % 32) * 64) + (b[i + 1] % 64))
             ELSE IF need = 2
                  THEN Utf16Of(((x % 16) * 4096) + ((b[i + 1] % 64) * 64)
                               + (b[i + 2] % 64))
             ELSE Utf16Of(((x % 8) * 262144) + ((b[i + 1] % 64) * 4096)
                          + ((b[i + 2] % 64) * 64) + (b[i + 3] % 64))
        ELSE IF x <= 191 /\ Continues(b, i, from) THEN <<>>
        ELSE <<ReplacementChar>>

RECURSIVE DecodeRange(_, _, _, _)
DecodeRange(b, lo, hi, from) ==
    IF lo > hi THEN <<>>
    ELSE IF lo = hi THEN DecodeAt(b, lo, from)
    ELSE DecodeRange(b, lo, (lo + hi) \div 2, from)
             \o DecodeRange(b, ((lo + hi) \div 2) + 1, hi, from)

HasBom(b) ==
    Len(b) >= 3 /\ b[1] = 239 /\ b[2] = 187 /\ b[3] = 191

\* new TextDecoder().decode(bytes): ignoreBOM is false, so a leading
\* EF BB BF is consumed and not part of the text.
bytesToText(bytes) ==
    LET from == IF HasBom(bytes) THEN 4 ELSE 1
    IN  DecodeRange(bytes, from, Len(bytes), from)

--------------------------------------------------------------------------
(***************************************************************************)
(* Constants of the codec.                                                 *)
(***************************************************************************)
PNG_SIGNATURE == <<137, 80, 78, 71, 13, 10, 26, 10>>

KEYWORD == <<76, 73, 86, 73, 78, 71, 95, 84, 86, 95, 68, 65, 84, 65>>

TypeTEXT == <<116, 69, 88, 116>>

TypeIEND == <<73, 69, 78, 68>>

\* A faulty createChunk whose CRC covers the data and leaves out the type
createChunkDataCrc(type, data) ==
    LET len == Len(data)
        crc == crc32(data)
    IN  <<ByteOf(len, 24), ByteOf(len, 16), ByteOf(len, 8), ByteOf(len, 0)>>
            \o textToBytes(type) \o data
            \o <<ByteOf(crc, 24), ByteOf(crc, 16), ByteOf(crc, 8), ByteOf(crc, 0)>>

\* createChunk(type, data): length, type, data, CRC of type ++ data.
createChunk(type, data) ==
    LET typeBytes == textToBytes(type)
        len == Len(data)
        lenBytes == <<ByteOf(len, 24), ByteOf(len, 16), ByteOf(len, 8), ByteOf(len, 0)>>
        chunkData == typeBytes \o data
        crc == crc32(chunkData)
        crcBytes == <<ByteOf(crc, 24), ByteOf(crc, 16), ByteOf(crc, 8), ByteOf(crc, 0)>>
    IN  lenBytes \o chunkData \o crcBytes

--------------------------------------------------------------------------
(***************************************************************************)
(* JavaScript values that JSON can carry, and undefined.  Numbers are the  *)
(* integers; a numeral with a fraction or an exponent parses to a value    *)
(* tagged "float" that keeps its lexeme.  Object members keep insertion    *)
(* order (keys[i] names kids[i]); keys are not array indices.              *)
(***************************************************************************)
J(t, n, s, keys, kids) ==
    [t |-> t, n |-> n, s |-> s, keys |-> keys, kids |-> kids]

JUndef == J("undefined", 0, <<>>, <<>>, <<>>)

JNull == J("null", 0, <<>>, <<>>, <<>>)

JTrue == J("true", 0, <<>>, <<>>, <<>>)

JFalse == J("false", 0, <<>>, <<>>, <<>>)

JNum(n) == J("num", n, <<>>, <<>>, <<>>)

JStr(s) == J("str", 0, s, <<>>, <<>>)

JArr(kids) == J("arr", 0, <<>>, <<>>, kids)

JObj(keys, kids) == J("obj", 0, <<>>, keys, kids)

\* !v is false
Truthy(v) ==
    ~ \/ v.t \in {"undefined", "null", "false"}
      \/ v.t = "num" /\ v.n = 0
      \/ v.t = "str" /\ v.s = <<>>

IsObject(v) ==
    v.t \in {"obj", "arr"}

\* key in v, for an object or array v and a key that is no array index
HasKey(v, key) ==
    v.t = "obj" /\ \E i \in 1 .. Len(v.keys) : v.keys[i] = key

\* v[key] for a v that is neither null nor undefined
Get(v, key) ==
    IF HasKey(v, key)
    THEN v.kids[CHOOSE i \in 1 .. Len(v.keys) : v.keys[i] = key]
    ELSE JUndef

\* Equality of values up to the order of object members.
RECURSIVE DeepEqual(_, _)
DeepEqual(a, b) ==
    /\ a.t = b.t
    /\ a.n = b.n
    /\ a.s = b.s
    /\ Len(a.kids) = Len(b.kids)
    /\ IF a.t = "obj"
       THEN /\ \A i \in 1 .. Len(a.keys) : HasKey(b, a.keys[i])
            /\ \A i \in 1 .. Len(a.keys) : DeepEqual(a.kids[i], Get(b, a.keys[i]))
       ELSE \A i \in 1 .. Len(a.kids) : DeepEqual(a.kids[i], b.kids[i])

--------------------------------------------------------------------------
(***************************************************************************)
(* JSON.stringify(value), without indentation.                             *)
(***************************************************************************)
HexDigit(d) ==
    IF d < 10 THEN 48 + d ELSE 87 + d

\* QuoteJSONString: the escapes of ECMA-262 25.5.2.3.
QuoteUnit(u) ==
    IF u = 34 THEN <<92, 34>>
    ELSE IF u = 92 THEN <<92, 92>>
    ELSE IF u = 8 THEN <<92, 98>>
    ELSE IF u = 12 THEN <<92, 102>>
    ELSE IF u = 10 THEN <<92, 110>>
    ELSE IF u = 13 THEN <<92, 114>>
    ELSE IF u = 9 THEN <<92, 116>>
    ELSE IF u < 32 \/ IsHighSurrogate(u) \/ IsLowSurrogate(u)
    THEN <<92, 117, HexDigit(u \div 4096), HexDigit((u \div 256) % 16),
           HexDigit((u \div 16) % 16), HexDigit(u % 16)>>
    ELSE <<u>>

\* A surrogate pair is copied; a lone surrogate is escaped.
QuoteAt(s, i) ==
    IF \/ IsHighSurrogate(s[i]) /\ i < Len(s) /\ IsLowSurrogate(s[i + 1])
       \/ IsLowSurrogate(s[i]) /\ i > 1 /\ IsHighSurrogate(s[i - 1])
    THEN <<s[i]>>
    ELSE QuoteUnit(s[i])

RECURSIVE QuoteRange(_, _, _)
QuoteRange(s, lo, hi) ==
    IF lo > hi THEN <<>>
    ELSE IF lo = hi THEN QuoteAt(s, lo)
    ELSE QuoteRange(s, lo, (lo + hi) \div 2)
             \o QuoteRange(s, ((lo + hi) \div 2) + 1, hi)

Quote(s) ==
    <<34>> \o QuoteRange(s, 1, Len(s)) \o <<34>>

RECURSIVE Digits(_)
Digits(n) ==
    IF n < 10 THEN <<48 + n>> ELSE Digits(n \div 10) \o <<48 + (n % 10)>>

NumberToString(n) ==
    IF n < 0 THEN <<45>> \o Digits(-n) ELSE Digits(n)

RECURSIVE Serialize(_)
RECURSIVE SerializeElements(_, _)
RECURSIVE SerializeMembers(_, _, _)
\* Array elements from index i on; undefined serializes as null.
SerializeElements(kids, i) ==
    IF i > Len(kids) THEN <<>>
    ELSE (IF i > 1 THEN <<44>> ELSE <<>>)
         \o (IF kids[i].t = "undefined" THEN <<110, 117, 108, 108>>
             ELSE Serialize(kids[i]))
         \o SerializeElements(kids, i + 1)

\* Object members from index i on; a member whose value is undefined is
\* left out.  first tells whether no member has been written yet.
SerializeMembers(v, i, first) ==
    IF i > Len(v.keys) THEN <<>>
    ELSE IF v.kids[i].t = "undefined" THEN SerializeMembers(v, i + 1, first)
    ELSE (IF first THEN <<>> ELSE <<44>>)
         \o Quote(v.keys[i]) \o <<58>> \o Serialize(v.kids[i])
         \o SerializeMembers(v, i + 1, FALSE)

Serialize(v) ==
    CASE v.t = "null" -> <<110, 117, 108, 108>>
      [] v.t = "true" -> <<116, 114, 117, 101>>
      [] v.t = "false" -> <<102, 97, 108, 115, 101>>
      [] v.t = "num" -> NumberToString(v.n)
      [] v.t = "float" -> v.s
      [] v.t = "str" -> Quote(v.s)
      [] v.t = "arr" -> <<91>> \o SerializeElements(v.kids, 1) \o <<93>>
      [] v.t = "obj" -> <<123>> \o SerializeMembers(v, 1, TRUE) \o <<125>>

\* textToBytes(JSON.stringify(value)): JSON.stringify(undefined) is
\* undefined, which TextEncoder.encode takes as its default, the empty string.
StringifyBytes(value) ==
    IF value.t = "undefined" THEN <<>> ELSE textToBytes(Serialize(value))

--------------------------------------------------------------------------
(***************************************************************************)
(* JSON.parse(text): a result [ok, v, i], i the index after what was read. *)
(***************************************************************************)
Fail == [ok |-> FALSE, v |-> JNull, i |-> 0]

Ok(v, i) == [ok |-> TRUE, v |-> v, i |-> i]

Ch(t, i) ==
    IF i >= 1 /\ i <= Len(t) THEN t[i] ELSE Undef

IsDigit(c) == c >= 48 /\ c <= 57

HexVal(c) ==
    IF c >= 48 /\ c <= 57 THEN c - 48
    ELSE IF c >= 97 /\ c <= 102 THEN c - 87
    ELSE IF c >= 65 /\ c <= 70 THEN c - 55
    ELSE Undef

RECURSIVE SkipWs(_, _)
SkipWs(t, i) ==
    IF Ch(t, i) \in {32, 9, 10, 13} THEN SkipWs(t, i + 1) ELSE i

Expect(t, i, word, v) ==
    IF i + Len(word) - 1 <= Len(t) /\ SubSeq(t, i, i + Len(word) - 1) = word
    THEN Ok(v, i + Len(word)) ELSE Fail

EscapeOf(c) ==
    CASE c = 34 -> 34 [] c = 92 -> 92 [] c = 47 -> 47 [] c = 98 -> 8
      [] c = 102 -> 12 [] c = 110 -> 10 [] c = 114 -> 13 [] c = 116 -> 9
      [] OTHER -> Undef

\* The code unit of \uXXXX from its four hex digits, Undef if one is none.
HexUnit(h1, h2, h3, h4) ==
    IF h1 = Undef \/ h2 = Undef \/ h3 = Undef \/ h4 = Undef THEN Undef
    ELSE h1 * 4096 + h2 * 256 + h3 * 16 + h4

\* What follows a backslash at index i: [u, n], the code unit denoted and
\* the number of characters of the escape; u is Undef for no escape.
EscapeAt(t, i) ==
    IF Ch(t, i + 1) = 117
    THEN [u |-> HexUnit(HexVal(Ch(t, i + 2)), HexVal(Ch(t, i + 3)),
                        HexVal(Ch(t, i + 4)), HexVal(Ch(t, i + 5))),
          n |-> 6]
    ELSE [u |-> EscapeOf(Ch(t, i + 1)), n |-> 2]

\* The characters of a string literal from index i (after the opening
\* quote) to its closing quote; acc is the string read so far.
RECURSIVE ParseString(_, _, _)
\* The character at j ends a run of plain characters: the end of the text,
\* a control character, a quote or a backslash.
EndsRun(t, j) ==
    Ch(t, j) = Undef \/ Ch(t, j) < 32 \/ Ch(t, j) = 34 \/ Ch(t, j) = 92

\* The first index from i on that ends the run of plain characters
RunEnd(t, i) ==
    CHOOSE j \in i .. Len(t) + 1 :
        EndsRun(t, j) /\ \A k \in i .. j - 1 : ~EndsRun(t, k)

\* The plain characters from i up to j are taken as they are.
ParseRun(t, i, acc, j) ==
    ParseString(t, j, acc \o SubSeq(t, i, j - 1))

ParseString(t, i, acc) ==
    IF Ch(t, i) = Undef \/ Ch(t, i) < 32 THEN Fail
    ELSE IF Ch(t, i) = 34 THEN Ok(JStr(acc), i + 1)
    ELSE IF Ch(t, i) = 92 THEN
         (IF EscapeAt(t, i).u = Undef THEN Fail
          ELSE ParseString(t, i + EscapeAt(t, i).n, Append(acc, EscapeAt(t, i).u)))
    ELSE ParseRun(t, i, acc, RunEnd(t, i))

RECURSIVE SkipDigits(_, _)
SkipDigits(t, i) ==
    IF IsDigit(Ch(t, i)) THEN SkipDigits(t, i + 1) ELSE i

RECURSIVE IntValue(_, _, _)
IntValue(t, i, j) ==
    IF i > j THEN 0 ELSE IntValue(t, i, j - 1) * 10 + (t[j] - 48)

\* The numeral whose sign ends before d0, integer part before d1, fraction
\* before f1, exponent mark and sign before e0 and exponent before e1.
Numeral(t, i, d0, d1, f1, e0, e1) ==
    IF d1 = d0 THEN Fail
    ELSE IF f1 = d1 + 1 THEN Fail
    ELSE IF e0 > f1 /\ e1 = e0 THEN Fail
    ELSE IF e1 > d1 THEN Ok(J("float", 0, SubSeq(t, i, e1 - 1), <<>>, <<>>), e1)
    ELSE Ok(JNum(IF d0 > i THEN -IntValue(t, d0, d1 - 1)
                           ELSE IntValue(t, d0, d1 - 1)), d1)

NumeralExponent(t, i, d0, d1, f1, e0) ==
    Numeral(t, i, d0, d1, f1, e0, IF e0 > f1 THEN SkipDigits(t, e0) ELSE f1)

NumeralFraction(t, i, d0, d1, f1) ==
    NumeralExponent(t, i, d0, d1, f1,
        IF Ch(t, f1) \in {101, 69}
        THEN (IF Ch(t, f1 + 1) \in {43, 45} THEN f1 + 2 ELSE f1 + 1)
        ELSE f1)

NumeralInteger(t, i, d0, d1) ==
    NumeralFraction(t, i, d0, d1,
        IF Ch(t, d1) = 46 THEN SkipDigits(t, d1 + 1) ELSE d1)

NumeralSign(t, i, d0) ==
    NumeralInteger(t, i, d0,
        IF Ch(t, d0) = 48 THEN d0 + 1 ELSE SkipDigits(t, d0))

\* -? (0 | [1-9][0-9]*) (. [0-9]+)? ([eE] [+-]? [0-9]+)?
ParseNumber(t, i) ==
    NumeralSign(t, i, IF Ch(t, i) = 45 THEN i + 1 ELSE i)

\* CreateDataProperty on the object being built: a repeated key keeps its
\* place and takes the later value.
SetMember(o, key, v) ==
    IF HasKey(o, key)
    THEN JObj(o.keys,
              [j \in 1 .. Len(o.kids) |-> IF o.keys[j] = key THEN v ELSE o.kids[j]])
    ELSE JObj(Append(o.keys, key), Append(o.kids, v))

RECURSIVE ParseValue(_, _)
RECURSIVE ParseElements(_, _, _)
RECURSIVE ParseMembers(_, _, _)
\* After the element r of an array, j the index of what follows it.
AfterElement(t, acc, r, j) ==
    IF ~r.ok THEN Fail
    ELSE IF Ch(t, j) = 44 THEN ParseElements(t, j + 1, Append(acc, r.v))
    ELSE IF Ch(t, j) = 93 THEN Ok(JArr(Append(acc, r.v)), j + 1)
    ELSE Fail

Element(t, acc, r) ==
    AfterElement(t, acc, r, SkipWs(t, r.i))

\* Elements of an array from index i (an element is expected); acc holds
\* the elements read so far.
ParseElements(t, i, acc) ==
    Element(t, acc, ParseValue(t, SkipWs(t, i)))

\* After the member k : r of an object, j the index of what follows it.
AfterMember(t, acc, k, r, j) ==
    IF ~r.ok THEN Fail
    ELSE IF Ch(t, j) = 44 THEN ParseMembers(t, j + 1, SetMember(acc, k.v.s, r.v))
    ELSE IF Ch(t, j) = 125 THEN Ok(SetMember(acc, k.v.s, r.v), j + 1)
    ELSE Fail

Member(t, acc, k, r) ==
    AfterMember(t, acc, k, r, SkipWs(t, r.i))

\* After the key k of a member, c the index of what follows it.
MemberValue(t, acc, k, c) ==
    Member(t, acc, k,
           IF k.ok /\ Ch(t, c) = 58 THEN ParseValue(t, SkipWs(t, c + 1)) ELSE Fail)

MemberKey(t, acc, k) ==
    MemberValue(t, acc, k, SkipWs(t, k.i))

MemberAt(t, acc, k0) ==
    MemberKey(t, acc, IF Ch(t, k0) = 34 THEN ParseString(t, k0 + 1, <<>>) ELSE Fail)

\* Members of an object from index i (a member is expected).
ParseMembers(t, i, acc) ==
    MemberAt(t, acc, SkipWs(t, i))

\* The value that starts at index i with the character c; j is the index
\* of what follows an opening bracket or brace.
ValueAt(t, i, c, j) ==
    CASE c = 110 -> Expect(t, i, <<110, 117, 108, 108>>, JNull)
      [] c = 116 -> Expect(t, i, <<116, 114, 117, 101>>, JTrue)
      [] c = 102 -> Expect(t, i, <<102, 97, 108, 115, 101>>, JFalse)
      [] c = 34 -> ParseString(t, i + 1, <<>>)
      [] c = 91 -> IF Ch(t, j) = 93 THEN Ok(JArr(<<>>), j + 1)
                   ELSE ParseElements(t, i + 1, <<>>)
      [] c = 123 -> IF Ch(t, j) = 125 THEN Ok(JObj(<<>>, <<>>), j + 1)
                    ELSE ParseMembers(t, i + 1, JObj(<<>>, <<>>))
      [] c = 45 \/ IsDigit(c) -> ParseNumber(t, i)
      [] OTHER -> Fail

ParseValue(t, i) ==
    ValueAt(t, i, Ch(t, i), SkipWs(t, i + 1))

\* The whole text is one value and white space.
Whole(text, r) ==
    IF r.ok /\ SkipWs(text, r.i) > Len(text) THEN r ELSE Fail

\* JSON.parse(text): [ok |-> FALSE] stands for the SyntaxError it throws.
JSONparse(text) ==
    Whole(text, ParseValue(text, SkipWs(text, 1)))

--------------------------------------------------------------------------
(***************************************************************************)
(* createTapeBlob and readTapeData, statement by statement.                *)
(***************************************************************************)
NotPng == "Not a valid PNG"

IendNotFound == "IEND chunk not found"

NoTapeData == "No Tape Data found on this image."

RangeError == "RangeError: offset is out of bounds"

\* What a call has produced: nothing yet, a blob, a state, or an exception.
Res(kind, msg, bytes, state) ==
    [kind |-> kind, msg |-> msg, bytes |-> bytes, state |-> state]

Pending == Res("pending", "", <<>>, JUndef)

Thrown(msg) == Res("error", msg, <<>>, JUndef)

\* A faulty signature loop that runs over the bytes present only
\* (i < uint8.length), so that a short buffer passes.
SignatureOkPresent(uint8) ==
    \A i \in 0 .. 7 : i < Len(uint8) => At(uint8, i) = PNG_SIGNATURE[i + 1]

\* The signature loop: uint8[i] !== PNG_SIGNATURE[i] for no i in 0..7.
SignatureOk(uint8) ==
    \A i \in 0 .. 7 : At(uint8, i) = PNG_SIGNATURE[i + 1]

\* keyword + null + JSON.stringify(stateData), wrapped as a tEXt chunk.
TapeChunk(stateData) ==
    createChunk(TypeTEXT, KEYWORD \o <<0>> \o StringifyBytes(stateData))

\* The length field read at pos.
ChunkLen(uint8, pos) ==
    Int32OfBytes(At(uint8, pos), At(uint8, pos + 1),
                 At(uint8, pos + 2), At(uint8, pos + 3))

\* The type read at pos.
ChunkType(uint8, pos) ==
    bytesToText(Slice(uint8, pos + 4, pos + 8))

\* A faulty iteration that steps over the chunk header and CRC only, so
\* that it reads chunk data as chunks.
CreateScanHeaders(uint8, pos) ==
    IF ChunkType(uint8, pos) = TypeIEND
    THEN [brk |-> TRUE, pos |-> pos, iendPos |-> pos]
    ELSE [brk |-> FALSE, pos |-> pos + 8 + 4, iendPos |-> -1]

\* One iteration of createTapeBlob's while loop, entered with pos < length.
CreateScan(uint8, pos) ==
    IF ChunkType(uint8, pos) = TypeIEND
    THEN [brk |-> TRUE, pos |-> pos, iendPos |-> pos]
    ELSE [brk |-> FALSE, pos |-> pos + 8 + ChunkLen(uint8, pos) + 4, iendPos |-> -1]

\* The three set() calls that build newPng; set throws a RangeError when
\* the source does not fit at the offset.
Splice(uint8, chunk, iendPos) ==
    LET head == Slice(uint8, 0, iendPos)
        tail == Slice(uint8, iendPos, Len(uint8))
        total == Len(uint8) + Len(chunk)
        zeros == [j \in 1 .. total |-> 0]
        put(target, src, off) ==
            [j \in 1 .. total |->
                IF j > off /\ j <= off + Len(src) THEN src[j - off] ELSE target[j]]
    IN  IF iendPos < 0 \/ iendPos + Len(chunk) > total
           \/ iendPos + Len(chunk) + Len(tail) > total
        THEN Thrown(RangeError)
        ELSE Res("blob", "",
                 put(put(put(zeros, head, 0), chunk, iendPos), tail,
                     iendPos + Len(chunk)),
                 JUndef)

\* The first of the indices k < len at which the chunk data holds 0x00.
FirstOf(hits) ==
    IF hits = {} THEN -1
    ELSE CHOOSE k \in hits : \A h \in hits : k <= h

\* The for loop over k < len looking for the first 0x00 of the chunk data;
\* -1 when there is none.  Reads outside the buffer are undefined, never 0.
NullByte(uint8, dataStart, len) ==
    FirstOf({k \in 0 .. (IF len < Len(uint8) - dataStart
                         THEN len ELSE Len(uint8) - dataStart) - 1 :
                At(uint8, dataStart + k) = 0})

\* Lines 145-157 for a tEXt chunk whose first 0x00 is at nullByte: whether
\* the keyword is KEYWORD and, if so, what JSON.parse made of the text.
TextEntry(uint8, dataStart, len, nullByte) ==
    IF nullByte # -1
       /\ bytesToText(Slice(uint8, dataStart, dataStart + nullByte)) = KEYWORD
    THEN [tape |-> TRUE,
          parsed |-> JSONparse(bytesToText(Slice(uint8, dataStart + nullByte + 1,
                                                 dataStart + len)))]
    ELSE [tape |-> FALSE, parsed |-> Fail]

\* A faulty outcome that leaves the loop at the first payload found.
ScanOutcomeFirst(pos, foundData, len, type, entry) ==
    [brk |-> type = TypeIEND \/ (type = TypeTEXT /\ entry.tape /\ entry.parsed.ok),
     pos |-> IF type = TypeIEND THEN pos ELSE pos + 8 + len + 4,
     foundData |-> IF type = TypeTEXT /\ entry.tape /\ entry.parsed.ok
                   THEN entry.parsed.v ELSE foundData,
     logged |-> type = TypeTEXT /\ entry.tape /\ ~entry.parsed.ok]

\* The outcome of an iteration that read len, type and, for a tEXt chunk,
\* entry: the new pos, the new foundData, whether the loop breaks, and
\* whether the catch clause logged a parse failure.
ScanOutcome(pos, foundData, len, type, entry) ==
    [brk |-> type = TypeIEND,
     pos |-> IF type = TypeIEND THEN pos ELSE pos + 8 + len + 4,
     foundData |-> IF type = TypeTEXT /\ entry.tape /\ entry.parsed.ok
                   THEN entry.parsed.v ELSE foundData,
     logged |-> type = TypeTEXT /\ entry.tape /\ ~entry.parsed.ok]

\* A faulty iteration that reads the text of a chunk only when the chunk's
\* CRC field holds crc32 of its type and data.
ReadScanChecked(uint8, pos, foundData) ==
    ScanOutcome(pos, foundData, ChunkLen(uint8, pos), ChunkType(uint8, pos),
                IF \A k \in 0 .. 3 :
                       At(uint8, pos + 8 + ChunkLen(uint8, pos) + k)
                           = ByteOf(crc32(Slice(uint8, pos + 4,
                                                pos + 8 + ChunkLen(uint8, pos))),
                                    24 - 8 * k)
                THEN TextEntry(uint8, pos + 8, ChunkLen(uint8, pos),
                               NullByte(uint8, pos + 8, ChunkLen(uint8, pos)))
                ELSE [tape |-> FALSE, parsed |-> Fail])

\* One iteration of readTapeData's while loop, entered with pos < length.
ReadScan(uint8, pos, foundData) ==
    ScanOutcome(pos, foundData, ChunkLen(uint8, pos), ChunkType(uint8, pos),
                TextEntry(uint8, pos + 8, ChunkLen(uint8, pos),
                          NullByte(uint8, pos + 8, ChunkLen(uint8, pos))))

VARIABLES
    call,        \* the function being run: "createTapeBlob" or "readTapeData"
    pc,          \* "signature", "scan", "after" (the loop is left), "done"
    uint8,       \* the bytes of the argument
    stateData,   \* createTapeBlob's second argument
    newChunk,    \* createTapeBlob's newChunk
    pos,         \* the read position
    iendPos,     \* createTapeBlob's iendPos
    foundData,   \* readTapeData's foundData
    result,      \* what the call returned or threw
    visited,     \* the positions at which an iteration has run
    logged,      \* the number of console.error calls of the catch clause
    carrier,     \* the bytes first handed to createTapeBlob, <<>> if none
    blob         \* the result of the createTapeBlob call that came first

codecVars ==
    <<crcTable, call, pc, uint8, stateData, newChunk, pos, iendPos, foundData,
      result, visited, logged, carrier, blob>>

VARIABLES
    page,           \* the page shown: "lobby" or "tv"; "app" for the App of App.tsx
    gameState,      \* the gameState of the TV room
    isStarted,      \* the isStarted of the TV room
    settings,       \* the settings of the TV room (visualStyle)
    locationState,  \* location.state, as the lobby's navigate call set it
    initEffect,     \* "pending" until the settings effect has run, then "done"
    loops,          \* the runLoop calls that wait for a promise
    drops,          \* the onDrop calls that wait for a promise or a callback
    files,          \* the files the viewer has, those handleEject saved among them
    alerted,        \* the message the last step alerted, "" if none
    crashed,        \* a state updater threw while rendering
    completed,      \* the file whose drop completed in the last step
    events          \* the number of clicks and drops handled so far

tvVars ==
    <<page, gameState, isStarted, settings, locationState, initEffect, loops,
      drops, files, alerted, crashed, completed, events>>

VARIABLES
    build,          \* the version of the lobby page that runs: 1 or 2
    library,        \* the library of the lobby, the newest tape first
    lobbyError,     \* the error of the lobby, "" for null
    lobbyLoading,   \* isLoading of the lobby: its effect has not finished
    lobbyFiles,     \* the files the viewer can drop onto the lobby
    imports,        \* the onDrop calls of the lobby that wait for a promise
    stored,         \* the list the browser stores under LIBRARY_KEY
    calls           \* the calls of storageService that wait for get or set

lobbyVars ==
    <<build, library, lobbyError, lobbyLoading, lobbyFiles, imports, stored,
      calls>>

vars == <<codecVars, tvVars, lobbyVars>>

\* The lobby of version b before its effect has run and before any drop.
LobbyStart(b) ==
    /\ build = b
    /\ library = <<>>
    /\ lobbyError = ""
    /\ lobbyLoading = TRUE
    /\ lobbyFiles = {}
    /\ imports = <<>>
    /\ stored = <<>>
    /\ calls = <<>>

\* A loadingStage: a fixed text, and the style name a template put in it.
Stage(text) == [text |-> text, style |-> <<>>]

INITIAL_STATE ==
    [videoUrl |-> JNull, currentBeat |-> JNull, lastFrameBase64 |-> JNull,
     isLoading |-> FALSE, loadingStage |-> Stage("IDLE"), history |-> JArr(<<>>)]

\* "claymation"
Claymation == <<99, 108, 97, 121, 109, 97, 116, 105, 111, 110>>

\* "vintage_anime"
VintageAnime ==
    <<118, 105, 110, 116, 97, 103, 101, 95, 97, 110, 105, 109, 101>>

\* "pixel_art"
PixelArt == <<112, 105, 120, 101, 108, 95, 97, 114, 116>>

\* "vhs_horror"
VhsHorror == <<118, 104, 115, 95, 104, 111, 114, 114, 111, 114>>

\* "cinematic_3d"
Cinematic3d == <<99, 105, 110, 101, 109, 97, 116, 105, 99, 95, 51, 100>>

\* "noir"
Noir == <<110, 111, 105, 114>>

\* The keys of ANIMATION_STYLES
ANIMATION_STYLES ==
    {Claymation, VintageAnime, PixelArt, VhsHorror, Cinematic3d, Noir}

DEFAULT_SETTINGS == [visualStyle |-> Claymation]

\* A file: its type, its bytes and, for a file handleEject saved, the
\* history and currentBeat of the session at that moment.
File(bytes, ejected, history, currentBeat) ==
    [type |-> "image/png", bytes |-> bytes, ejected |-> ejected,
     history |-> history, currentBeat |-> currentBeat]

NoFile == [type |-> "", bytes |-> <<>>, ejected |-> FALSE,
           history |-> JUndef, currentBeat |-> JUndef]

NoLocation == [tapeData |-> JUndef, tapeImgBase64 |-> JUndef]

\* The TV room before the lobby navigates to it.
RoomIdle ==
    /\ page = "lobby"
    /\ gameState = INITIAL_STATE
    /\ isStarted = FALSE
    /\ settings = DEFAULT_SETTINGS
    /\ locationState = NoLocation
    /\ initEffect = "pending"
    /\ loops = <<>>
    /\ drops = <<>>
    /\ files = {}
    /\ alerted = ""
    /\ crashed = FALSE
    /\ completed = NoFile
    /\ events = 0

\* createTapeBlob, lines 71-87: the signature check, then newChunk.
CreateTapeBlobCheck ==
    /\ call = "createTapeBlob" /\ pc = "signature"
    /\ IF SignatureOk(uint8)
       THEN /\ newChunk' = TapeChunk(stateData)
            /\ pc' = "scan"
            /\ UNCHANGED result
       ELSE /\ result' = Thrown(NotPng)
            /\ pc' = "done"
            /\ UNCHANGED newChunk
    /\ UNCHANGED <<crcTable, call, uint8, stateData, pos, iendPos, foundData, visited,
                   logged, carrier, blob>>
    /\ UNCHANGED <<tvVars, lobbyVars>>

\* createTapeBlob, lines 93-104: one iteration of the loop.  An iteration
\* at a position already visited repeats what followed it, for ever.
CreateTapeBlobScan ==
    /\ call = "createTapeBlob" /\ pc = "scan"
    /\ pos < Len(uint8) /\ pos \notin visited
    /\ \E r \in {CreateScan(uint8, pos)} :
           /\ pos' = r.pos
           /\ iendPos' = r.iendPos
           /\ pc' = IF r.brk THEN "after" ELSE "scan"
    /\ visited' = visited \cup {pos}
    /\ UNCHANGED <<crcTable, call, uint8, stateData, newChunk, foundData, result, logged,
                   carrier, blob>>
    /\ UNCHANGED <<tvVars, lobbyVars>>

\* An end of createTapeBlob that puts the chunk right after the signature,
\* ahead of every chunk of the carrier.
CreateTapeBlobFinishFront ==
    /\ call = "createTapeBlob"
    /\ pc = "after" \/ (pc = "scan" /\ ~(pos < Len(uint8)))
    /\ result' = IF iendPos = -1 THEN Thrown(IendNotFound)
                 ELSE Splice(uint8, newChunk, 8)
    /\ blob' = result'
    /\ pc' = "done"
    /\ UNCHANGED <<crcTable, call, uint8, stateData, newChunk, pos, iendPos, foundData,
                   visited, logged, carrier>>
    /\ UNCHANGED <<tvVars, lobbyVars>>

\* A faulty end of createTapeBlob that appends the chunk to a buffer in
\* which no IEND was met.
CreateTapeBlobFinishAppend ==
    /\ call = "createTapeBlob"
    /\ pc = "after" \/ (pc = "scan" /\ ~(pos < Len(uint8)))
    /\ result' = Splice(uint8, newChunk, IF iendPos = -1 THEN Len(uint8) ELSE iendPos)
    /\ blob' = result'
    /\ pc' = "done"
    /\ UNCHANGED <<crcTable, call, uint8, stateData, newChunk, pos, iendPos, foundData,
                   visited, logged, carrier>>
    /\ UNCHANGED <<tvVars, lobbyVars>>

\* createTapeBlob, lines 106-114: after the loop.
CreateTapeBlobFinish ==
    /\ call = "createTapeBlob"
    /\ pc = "after" \/ (pc = "scan" /\ ~(pos < Len(uint8)))
    /\ result' = IF iendPos = -1 THEN Thrown(IendNotFound)
                 ELSE Splice(uint8, newChunk, iendPos)
    /\ blob' = result'
    /\ pc' = "done"
    /\ UNCHANGED <<crcTable, call, uint8, stateData, newChunk, pos, iendPos, foundData,
                   visited, logged, carrier>>
    /\ UNCHANGED <<tvVars, lobbyVars>>

\* readTapeData, lines 121-130: the signature check.
ReadTapeDataCheck ==
    /\ call = "readTapeData" /\ pc = "signature"
    /\ IF SignatureOk(uint8)
       THEN pc' = "scan" /\ UNCHANGED result
       ELSE pc' = "done" /\ result' = Thrown(NotPng)
    /\ UNCHANGED <<crcTable, call, uint8, stateData, newChunk, pos, iendPos, foundData,
                   visited, logged, carrier, blob>>
    /\ UNCHANGED <<tvVars, lobbyVars>>

\* readTapeData, lines 132-163: one iteration of the loop.
ReadTapeDataScan ==
    /\ call = "readTapeData" /\ pc = "scan"
    /\ pos < Len(uint8) /\ pos \notin visited
    /\ \E r \in {ReadScan(uint8, pos, foundData)} :
           /\ pos' = r.pos
           /\ foundData' = r.foundData
           /\ logged' = IF r.logged THEN logged + 1 ELSE logged
           /\ pc' = IF r.brk THEN "after" ELSE "scan"
    /\ visited' = visited \cup {pos}
    /\ UNCHANGED <<crcTable, call, uint8, stateData, newChunk, iendPos, result, carrier, blob>>
    /\ UNCHANGED <<tvVars, lobbyVars>>

\* A faulty end of readTapeData that hands the buffer over with its
\* result and leaves the caller an empty one.
ReadTapeDataFinishDetach ==
    /\ call = "readTapeData"
    /\ pc = "after" \/ (pc = "scan" /\ ~(pos < Len(uint8)))
    /\ result' = IF ~Truthy(foundData) THEN Thrown(NoTapeData)
                 ELSE Res("state", "", uint8, foundData)
    /\ pc' = "done"
    /\ uint8' = <<>>
    /\ UNCHANGED <<crcTable, call, stateData, newChunk, pos, iendPos, foundData,
                   visited, logged, carrier, blob>>
    /\ UNCHANGED <<tvVars, lobbyVars>>

\* readTapeData, lines 165-170: after the loop.  imgUrl names the file
\* itself, so the returned record carries the file's bytes.
ReadTapeDataFinish ==
    /\ call = "readTapeData"
    /\ pc = "after" \/ (pc = "scan" /\ ~(pos < Len(uint8)))
    /\ result' = IF ~Truthy(foundData) THEN Thrown(NoTapeData)
                 ELSE Res("state", "", uint8, foundData)
    /\ pc' = "done"
    /\ UNCHANGED <<crcTable, call, uint8, stateData, newChunk, pos, iendPos, foundData,
                   visited, logged, carrier, blob>>
    /\ UNCHANGED <<tvVars, lobbyVars>>

\* The blob createTapeBlob returned is saved as a file and handed to
\* readTapeData (TVRoom.tsx handleEject, then onDrop).
ReadBack ==
    /\ call = "createTapeBlob" /\ pc = "done" /\ result.kind = "blob"
    /\ call' = "readTapeData"
    /\ pc' = "signature"
    /\ uint8' = result.bytes
    /\ pos' = 8
    /\ foundData' = JNull
    /\ visited' = {}
    /\ result' = Pending
    /\ UNCHANGED <<crcTable, stateData, newChunk, iendPos, logged, carrier, blob>>
    /\ UNCHANGED <<tvVars, lobbyVars>>

--------------------------------------------------------------------------
(***************************************************************************)
(* The inputs the calls are run on: files built chunk by chunk, and JSON   *)
(* payloads.  Texts are spelled as their character codes.                  *)
(***************************************************************************)
\* length field, type, data, CRC field
RawChunk(len4, type, data, crc4) ==
    len4 \o type \o data \o crc4

TextA1 == <<123, 34, 97, 34, 58, 49, 125>>                \* {"a":1}

TextB2 == <<123, 34, 98, 34, 58, 50, 125>>                \* {"b":2}

ValueA1 == JObj(<< <<97>> >>, <<JNum(1)>>)

ValueB2 == JObj(<< <<98>> >>, <<JNum(2)>>)

\* IHDR with one data byte
IhdrChunk ==
    RawChunk(<<0, 0, 0, 1>>, <<73, 72, 68, 82>>,
             <<1>>,
             <<69, 120, 151, 171>>)

\* IEND
IendChunk ==
    RawChunk(<<0, 0, 0, 0>>, TypeIEND,
             <<>>,
             <<174, 66, 96, 130>>)

\* An IDAT chunk whose data is itself a complete IEND chunk.
IdatChunk ==
    RawChunk(<<0, 0, 0, 12>>, <<73, 68, 65, 84>>,
             IendChunk,
             <<74, 157, 78, 177>>)

\* tEXt "Comment" 0x00 "hi"
CommentChunk ==
    RawChunk(<<0, 0, 0, 10>>, TypeTEXT,
             <<67, 111, 109, 109, 101, 110, 116, 0, 104, 105>>,
             <<162, 162, 88, 102>>)

\* The sentinel keyword with the text {"a":1}
TapeA1 ==
    RawChunk(<<0, 0, 0, 22>>, TypeTEXT,
             KEYWORD \o <<0>> \o TextA1,
             <<84, 101, 231, 183>>)

\* The sentinel keyword with the text {"b":2}
TapeB2 ==
    RawChunk(<<0, 0, 0, 22>>, TypeTEXT,
             KEYWORD \o <<0>> \o TextB2,
             <<56, 232, 206, 164>>)

\* The sentinel keyword with the text {oops
BadJsonChunk ==
    RawChunk(<<0, 0, 0, 20>>, TypeTEXT,
             KEYWORD \o <<0>> \o <<123, 111, 111, 112, 115>>,
             <<58, 87, 129, 227>>)

\* The sentinel keyword with the text null
NullTapeChunk ==
    RawChunk(<<0, 0, 0, 19>>, TypeTEXT,
             KEYWORD \o <<0>> \o <<110, 117, 108, 108>>,
             <<164, 224, 211, 179>>)

\* The sentinel keyword and a payload with no 0x00 between them.
NoSeparatorChunk ==
    RawChunk(<<0, 0, 0, 21>>, TypeTEXT,
             KEYWORD \o TextA1,
             <<105, 109, 192, 177>>)

\* LIVING_TV, a proper prefix of the sentinel keyword
PrefixChunk ==
    RawChunk(<<0, 0, 0, 17>>, TypeTEXT,
             SubSeq(KEYWORD, 1, 9) \o <<0>> \o TextA1,
             <<26, 168, 8, 124>>)

\* LIVING_TV_DATA2, the sentinel keyword and one more character
ExtensionChunk ==
    RawChunk(<<0, 0, 0, 23>>, TypeTEXT,
             KEYWORD \o <<50, 0>> \o TextA1,
             <<189, 252, 162, 241>>)

\* XLIVING_TV_DATA, one character before the sentinel keyword
LeadingChunk ==
    RawChunk(<<0, 0, 0, 23>>, TypeTEXT,
             <<88>> \o KEYWORD \o <<0>> \o TextA1,
             <<111, 225, 167, 93>>)

\* EF BB BF before the sentinel keyword
BomChunk ==
    RawChunk(<<0, 0, 0, 25>>, TypeTEXT,
             <<239, 187, 191>> \o KEYWORD \o <<0>> \o TextA1,
             <<193, 164, 10, 75>>)

\* Length field FF FF FF F4, type "junk", no data.
NegLenChunk == <<255, 255, 255, 244, 106, 117, 110, 107, 0, 0, 0, 0>>

\* Length field FF FF FF E8, type "junk", no data.
BackLenChunk == <<255, 255, 255, 232, 106, 117, 110, 107, 0, 0, 0, 0>>

\* A sentinel tEXt chunk that declares 64 data bytes and holds fewer; the
\* file ends with it.
OverrunTail == <<0, 0, 0, 64>> \o TypeTEXT \o KEYWORD \o <<0>> \o TextA1

\* An IEND chunk cut after the second byte of its type.
CutIendTail == SubSeq(IendChunk, 1, 6)

EmbedMids ==
    {IdatChunk, CommentChunk, TapeA1, NegLenChunk}

EmbedTails ==
    {IendChunk, <<>>, CutIendTail}

ReadMids ==
    {IdatChunk, CommentChunk, TapeA1, TapeB2, BadJsonChunk, NullTapeChunk,
     NoSeparatorChunk, PrefixChunk, ExtensionChunk, LeadingChunk, BomChunk,
     NegLenChunk, BackLenChunk}

ReadTails ==
    {IendChunk, <<>>, OverrunTail}

\* Buffers that do not start with the signature.
NotPngFiles ==
    {<<>>, SubSeq(PNG_SIGNATURE, 1, 4), SubSeq(PNG_SIGNATURE, 1, 7),
     <<71, 73, 70, 56, 57, 97, 1, 0, 1, 0>>,
     <<137, 80, 78, 71, 13, 10, 26, 13>> \o IhdrChunk \o TapeA1 \o IendChunk}

RECURSIVE Flatten(_)
Flatten(ss) ==
    IF ss = <<>> THEN <<>> ELSE Head(ss) \o Flatten(Tail(ss))

\* signature, IHDR, at most MaxMid chunks of mids, one of tails
Files(mids, tails) ==
    {PNG_SIGNATURE \o IhdrChunk \o Flatten(m) \o t :
        m \in UNION {[1 .. k -> mids] : k \in 0 .. MaxMid}, t \in tails}

EmbedCarriers ==
    Files(EmbedMids, EmbedTails) \cup NotPngFiles \cup {PNG_SIGNATURE}

ReadFiles ==
    Files(ReadMids, ReadTails) \cup NotPngFiles \cup {PNG_SIGNATURE}

\* {"history":["a"],"currentBeat":null}
LegacyState ==
    JObj(<< <<104, 105, 115, 116, 111, 114, 121>>,
            <<99, 117, 114, 114, 101, 110, 116, 66, 101, 97, 116>> >>,
         <<JArr(<<JStr(<<97>>)>>), JNull>>)

\* {"meta":{"version":"1.0","characterName":"Test"},
\*  "engineState":{"history":["hello"],"currentBeat":null}}
TestEnvelope ==
    JObj(<< <<109, 101, 116, 97>>,
            <<101, 110, 103, 105, 110, 101, 83, 116, 97, 116, 101>> >>,
         << JObj(<< <<118, 101, 114, 115, 105, 111, 110>>,
                    <<99, 104, 97, 114, 97, 99, 116, 101, 114, 78, 97, 109, 101>> >>,
                 <<JStr(<<49, 46, 48>>), JStr(<<84, 101, 115, 116>>)>>),
            JObj(<< <<104, 105, 115, 116, 111, 114, 121>>,
                    <<99, 117, 114, 114, 101, 110, 116, 66, 101, 97, 116>> >>,
                 <<JArr(<<JStr(<<104, 101, 108, 108, 111>>)>>), JNull>>) >>)

\* JSON-serializable payloads; the string a"\<LF><e-acute> needs escapes
\* and a two-byte UTF-8 sequence.
Payloads ==
    {JNull, JFalse, JTrue, JNum(0), JNum(7), JNum(-12), JStr(<<>>),
     JStr(<<97, 34, 92, 10, 233>>), JArr(<<>>), JObj(<<>>, <<>>),
     JArr(<<JNull, JNum(0), JStr(<<97>>)>>), ValueB2, LegacyState, TestEnvelope}

--------------------------------------------------------------------------
Init ==
    /\ crcTable = TableFrom(0, 256)
    /\ RoomIdle
    /\ LobbyStart(1)
    /\ \/ /\ call = "createTapeBlob"
          /\ uint8 \in EmbedCarriers
          /\ stateData \in Payloads
          /\ carrier = uint8
       \/ /\ call = "readTapeData"
          /\ uint8 \in ReadFiles
          /\ stateData = JUndef
          /\ carrier = <<>>
    /\ pc = "signature"
    /\ newChunk = <<>>
    /\ pos = 8
    /\ iendPos = -1
    /\ foundData = JNull
    /\ result = Pending
    /\ visited = {}
    /\ logged = 0
    /\ blob = Pending

Next ==
    \/ CreateTapeBlobCheck
    \/ CreateTapeBlobScan
    \/ CreateTapeBlobFinish
    \/ ReadTapeDataCheck
    \/ ReadTapeDataScan
    \/ ReadTapeDataFinish
    \/ ReadBack

Spec == Init /\ [][Next]_vars

--------------------------------------------------------------------------
(***************************************************************************)
(* The PNG container as the properties below speak of it: chunks are read  *)
(* with unsigned lengths and must lie inside the buffer.  Offsets are      *)
(* JavaScript offsets.  These operators are not part of the program.       *)
(***************************************************************************)
RefSignature(c) ==
    Len(c) >= 8 /\ SubSeq(c, 1, 8) = PNG_SIGNATURE

\* The unsigned length of a chunk at p whose first length byte is 0.
RefLen(c, p) ==
    c[p + 2] * 65536 + c[p + 3] * 256 + c[p + 4]

\* A whole chunk (length, type, data, CRC field) lies at offset p.
RefChunkAt(c, p) ==
    /\ p + 12 <= Len(c)
    /\ c[p + 1] = 0
    /\ p + 12 + RefLen(c, p) <= Len(c)

RefType(c, p) ==
    SubSeq(c, p + 5, p + 8)

RefData(c, p) ==
    SubSeq(c, p + 9, p + 8 + RefLen(c, p))

\* The offset of the first IEND chunk in chunk order from p, -1 if the
\* chunks run out or overrun the buffer before one.
RECURSIVE RefIend(_, _)
RefIend(c, p) ==
    IF ~RefChunkAt(c, p) THEN -1
    ELSE IF RefType(c, p) = TypeIEND THEN p
    ELSE RefIend(c, p + 12 + RefLen(c, p))

\* The offsets of the chunks from p up to and including the first IEND.
RECURSIVE RefOffsets(_, _)
RefOffsets(c, p) ==
    IF ~RefChunkAt(c, p) THEN {}
    ELSE IF RefType(c, p) = TypeIEND THEN {p}
    ELSE {p} \cup RefOffsets(c, p + 12 + RefLen(c, p))

\* Signature, then chunks, the last of which is the first IEND chunk.
RefWellFormed(c) ==
    /\ RefSignature(c)
    /\ RefIend(c, 8) # -1
    /\ RefIend(c, 8) + 12 + RefLen(c, RefIend(c, 8)) = Len(c)

\* The chunk at p is a tEXt chunk whose bytes before its first 0x00 are
\* the sentinel keyword.
RefSentinelAt(c, p) ==
    /\ RefType(c, p) = TypeTEXT
    /\ RefLen(c, p) >= Len(KEYWORD) + 1
    /\ SubSeq(RefData(c, p), 1, Len(KEYWORD) + 1) = KEYWORD \o <<0>>

\* The bytes after the keyword and its 0x00 in a sentinel chunk.
RefValue(c, p) ==
    SubSeq(RefData(c, p), Len(KEYWORD) + 2, RefLen(c, p))

ReadDone ==
    call = "readTapeData" /\ pc = "done"

EmbedDone ==
    call = "createTapeBlob" /\ pc = "done"

--------------------------------------------------------------------------
(***************************************************************************)
(* C1.  Round trip: for every well-formed carrier and every                *)
(* JSON-serializable payload, readTapeData on the output of createTapeBlob *)
(* succeeds and returns a state deep-equal to the payload.                 *)
(***************************************************************************)
RoundTrip ==
    (ReadDone /\ blob.kind = "blob" /\ RefWellFormed(carrier))
        => (result.kind = "state" /\ DeepEqual(result.state, stateData))

RoundTripWitness ==
    /\ ReadDone /\ blob.kind = "blob" /\ RefWellFormed(carrier)
    /\ stateData = JNull
    /\ result = Thrown(NoTapeData)

(***************************************************************************)
(* C2.  Splice: for a carrier with an IEND chunk, the output of            *)
(* createTapeBlob is the carrier's bytes before the first IEND chunk in    *)
(* chunk order, one new tEXt chunk, and the carrier's bytes from that IEND *)
(* chunk on; one chunk is added, and the bytes IEND inside another chunk's *)
(* data are not the insertion point.                                       *)
(***************************************************************************)
SplicedAt(c, out, k, chunk) ==
    /\ Len(out) = Len(c) + Len(chunk)
    /\ out = SubSeq(c, 1, k) \o chunk \o SubSeq(c, k + 1, Len(c))
    /\ RefChunkAt(chunk, 0)
    /\ RefLen(chunk, 0) + 12 = Len(chunk)
    /\ RefType(chunk, 0) = TypeTEXT
    /\ Cardinality(RefOffsets(out, 8)) = Cardinality(RefOffsets(c, 8)) + 1

SpliceExact ==
    (EmbedDone /\ RefSignature(carrier) /\ RefIend(carrier, 8) # -1)
        => /\ result.kind = "blob"
           /\ SplicedAt(carrier, result.bytes, RefIend(carrier, 8), newChunk)

\* A carrier in which the bytes IEND occur before its IEND chunk.
SpliceWitness ==
    /\ EmbedDone /\ result.kind = "blob"
    /\ \E q \in 8 .. RefIend(carrier, 8) - 1 : SubSeq(carrier, q + 1, q + 4) = TypeIEND

(***************************************************************************)
(* C3.  A buffer whose first 8 bytes are not the PNG signature (the empty  *)
(* buffer and shorter ones included) makes createTapeBlob and readTapeData *)
(* throw the not-a-PNG error before a chunk is read; no blob and no state  *)
(* is returned.                                                            *)
(***************************************************************************)
NotPngRejected ==
    ~RefSignature(uint8)
        => /\ pc \in {"signature", "done"}
           /\ visited = {}
           /\ pos = 8
           /\ pc = "done" => result = Thrown(NotPng)

NotPngWitness ==
    /\ EmbedDone /\ uint8 = <<>> /\ result = Thrown(NotPng)

(***************************************************************************)
(* C4.  Keyword isolation: on a well-formed PNG in which no tEXt chunk has *)
(* the sentinel keyword as its bytes before the first 0x00, readTapeData   *)
(* throws the payload-not-found error.                                     *)
(***************************************************************************)
KeywordIsolation ==
    (/\ ReadDone /\ RefWellFormed(uint8)
     /\ ~ \E p \in RefOffsets(uint8, 8) : RefSentinelAt(uint8, p))
        => result = Thrown(NoTapeData)

KeywordIsolationWitness ==
    /\ ReadDone /\ RefWellFormed(uint8)
    /\ ~ \E p \in RefOffsets(uint8, 8) : RefSentinelAt(uint8, p)
    /\ result.kind = "state"

(***************************************************************************)
(* C5.  Several sentinel chunks, each holding valid JSON.  As claimed, the *)
(* first one decides and scanning stops (FirstWins).  What the code does:  *)
(* every chunk up to the IEND chunk is read, and the last chunk that it    *)
(* accepts and can parse decides, its payload being returned when it is    *)
(* truthy (LastWins).  The code accepts a tEXt chunk when the bytes before *)
(* its first 0x00 decode to the keyword: the keyword itself, or the        *)
(* keyword after a byte-order mark.                                        *)
(***************************************************************************)
RefSentinels(c) ==
    {p \in RefOffsets(c, 8) : RefSentinelAt(c, p)}

RefPayload(c, p) ==
    JSONparse(bytesToText(RefValue(c, p)))

RefFirst(c) ==
    CHOOSE p \in RefSentinels(c) : \A q \in RefSentinels(c) : p <= q

SeveralPayloads(c) ==
    /\ RefWellFormed(c)
    /\ Cardinality(RefSentinels(c)) >= 2
    /\ \A p \in RefSentinels(c) : RefPayload(c, p).ok

FirstWins ==
    (ReadDone /\ SeveralPayloads(uint8))
        => /\ result.kind = "state"
           /\ DeepEqual(result.state, RefPayload(uint8, RefFirst(uint8)).v)

\* The bytes of d before its first 0x00; d itself has none if it has no 0x00.
RefKey(d) ==
    IF \E z \in 1 .. Len(d) : d[z] = 0
    THEN SubSeq(d, 1, (CHOOSE z \in 1 .. Len(d) :
                          d[z] = 0 /\ \A y \in 1 .. z - 1 : d[y] # 0) - 1)
    ELSE <<0>>

RefAccepted(c, p) ==
    /\ RefType(c, p) = TypeTEXT
    /\ RefKey(RefData(c, p)) \in {KEYWORD, <<239, 187, 191>> \o KEYWORD}

\* The chunk's bytes after its first 0x00, parsed.
RefParsed(c, p) ==
    JSONparse(bytesToText(SubSeq(RefData(c, p), Len(RefKey(RefData(c, p))) + 2,
                                 RefLen(c, p))))

\* The chunks whose payload the code takes.
RefDeciding(c) ==
    {p \in RefOffsets(c, 8) : RefAccepted(c, p) /\ RefParsed(c, p).ok}

RefLastDeciding(c) ==
    CHOOSE p \in RefDeciding(c) : \A q \in RefDeciding(c) : p >= q

Decides(res, payload) ==
    IF Truthy(payload)
    THEN res.kind = "state" /\ DeepEqual(res.state, payload)
    ELSE res = Thrown(NoTapeData)

LastWins ==
    (ReadDone /\ SeveralPayloads(uint8))
        => /\ Decides(result, RefParsed(uint8, RefLastDeciding(uint8)).v)
           /\ visited = RefOffsets(uint8, 8)

LastWinsWitness ==
    /\ ReadDone /\ SeveralPayloads(uint8)
    /\ result.kind = "state"
    /\ ~DeepEqual(result.state, RefPayload(uint8, RefFirst(uint8)).v)

(***************************************************************************)
(* C6.  A sentinel chunk whose value is not parseable JSON makes           *)
(* readTapeData fail with an error other than the payload-not-found error. *)
(***************************************************************************)
RefCorrupt(c) ==
    \E p \in RefSentinels(c) : ~RefPayload(c, p).ok

CorruptReported ==
    (ReadDone /\ RefWellFormed(uint8) /\ RefCorrupt(uint8))
        => result.kind = "error" /\ result.msg # NoTapeData

CorruptWitness ==
    /\ ReadDone /\ RefWellFormed(uint8) /\ RefCorrupt(uint8)
    /\ logged > 0
    /\ result = Thrown(NoTapeData)

(***************************************************************************)
(* C7.  readTapeData fails and returns no state when the chunks run out    *)
(* before an IEND chunk or a declared length extends past the buffer end.  *)
(***************************************************************************)
TruncatedFails ==
    (ReadDone /\ RefSignature(uint8) /\ RefIend(uint8, 8) = -1)
        => result.kind = "error"

TruncatedWitness ==
    /\ ReadDone /\ RefSignature(uint8) /\ RefIend(uint8, 8) = -1
    /\ result.kind = "state"

(***************************************************************************)
(* C8.  In both traversal loops the read position strictly increases from  *)
(* one iteration to the next, whatever the length fields hold.             *)
(***************************************************************************)
PosIncreases ==
    [][(pc = "scan" /\ pc' = "scan") => pos' > pos]_vars

\* An iteration is due at an offset where one has run: the loop repeats.
LoopWitness ==
    pc = "scan" /\ pos < Len(uint8) /\ pos \in visited

(***************************************************************************)
(* C9.  createTapeBlob on a buffer with the signature in which the loop    *)
(* ends without meeting an IEND type throws the IEND-not-found error; it   *)
(* returns no bytes.                                                       *)
(***************************************************************************)
MetIend ==
    \E p \in visited : Slice(uint8, p + 4, p + 8) = TypeIEND

NoIendFails ==
    (EmbedDone /\ RefSignature(uint8) /\ ~MetIend)
        => result = Thrown(IendNotFound) /\ blob = result

NoIendWitness ==
    /\ EmbedDone /\ RefSignature(uint8) /\ ~MetIend
    /\ visited # {}
    /\ result = Thrown(IendNotFound)

--------------------------------------------------------------------------
(***************************************************************************)
(* createTapeBlob and readTapeData as functions of their arguments, for    *)
(* the callers in the TV room.  The loops are those of CreateScan and      *)
(* ReadScan; a loop that comes back to an offset it has left never ends,   *)
(* and the promise of the call then never settles (kind "never").          *)
(***************************************************************************)
Never == Res("never", "", <<>>, JUndef)

RECURSIVE CreateLoop(_, _, _)
\* After the iteration r at the offset at.
CreateLoopNext(png, at, seen, r) ==
    IF r.brk THEN r.iendPos ELSE CreateLoop(png, r.pos, seen \cup {at})

\* The loop of lines 93-104 from at on: iend when it ends, -2 when it
\* never ends.
CreateLoop(png, at, seen) ==
    IF ~(at < Len(png)) THEN -1
    ELSE IF at \in seen THEN -2
    ELSE CreateLoopNext(png, at, seen, CreateScan(png, at))

\* Lines 106-114 for the iend the loop left.
CreateEnd(png, chunk, iend) ==
    IF iend = -2 THEN Never
    ELSE IF iend = -1 THEN Thrown(IendNotFound)
    ELSE Splice(png, chunk, iend)

createTapeBlob(png, data) ==
    IF ~SignatureOk(png) THEN Thrown(NotPng)
    ELSE CreateEnd(png, TapeChunk(data), CreateLoop(png, 8, {}))

RECURSIVE ReadLoop(_, _, _, _)
\* After the iteration r at the offset at.
ReadLoopNext(png, at, seen, r) ==
    IF r.brk THEN [ends |-> TRUE, foundData |-> r.foundData]
    ELSE ReadLoop(png, r.pos, r.foundData, seen \cup {at})

\* The loop of lines 132-163 from at on: whether it ends, and foundData.
ReadLoop(png, at, found, seen) ==
    IF ~(at < Len(png)) THEN [ends |-> TRUE, foundData |-> found]
    ELSE IF at \in seen THEN [ends |-> FALSE, foundData |-> found]
    ELSE ReadLoopNext(png, at, seen, ReadScan(png, at, found))

\* Lines 165-170 for what the loop left.
ReadEnd(png, loop) ==
    IF ~loop.ends THEN Never
    ELSE IF ~Truthy(loop.foundData) THEN Thrown(NoTapeData)
    ELSE Res("state", "", png, loop.foundData)

readTapeData(png) ==
    IF ~SignatureOk(png) THEN Thrown(NotPng)
    ELSE ReadEnd(png, ReadLoop(png, 8, JNull, {}))

(***************************************************************************)
(* Base64, as canvas.toDataURL and FileReader.readAsDataURL write it and   *)
(* atob reads it.  Text is a sequence of character codes.                  *)
(***************************************************************************)
Base64Char(n) ==
    IF n < 26 THEN 65 + n
    ELSE IF n < 52 THEN 97 + (n - 26)
    ELSE IF n < 62 THEN 48 + (n - 52)
    ELSE IF n = 62 THEN 43 ELSE 47

\* The value of a base64 character, Undef for any other character.
Base64Val(c) ==
    IF c >= 65 /\ c <= 90 THEN c - 65
    ELSE IF c >= 97 /\ c <= 122 THEN c - 71
    ELSE IF c >= 48 /\ c <= 57 THEN c + 4
    ELSE IF c = 43 THEN 62
    ELSE IF c = 47 THEN 63
    ELSE Undef

\* The four characters for the bytes at indices i, i+1, i+2 (n of them
\* present, the others taken as 0 and written as =).
Base64Group(b0, b1, b2, n) ==
    <<Base64Char(b0 \div 4),
      Base64Char(((b0 % 4) * 16) + (b1 \div 16)),
      IF n >= 2 THEN Base64Char(((b1 % 16) * 4) + (b2 \div 64)) ELSE 61,
      IF n >= 3 THEN Base64Char(b2 % 64) ELSE 61>>

\* The groups lo .. hi of the bytes b (group g holds bytes 3g-2 .. 3g).
RECURSIVE Base64Groups(_, _, _)
Base64Groups(b, lo, hi) ==
    IF lo > hi THEN <<>>
    ELSE IF lo = hi
    THEN Base64Group(b[(3 * lo) - 2],
                     IF 3 * lo - 1 <= Len(b) THEN b[(3 * lo) - 1] ELSE 0,
                     IF 3 * lo <= Len(b) THEN b[3 * lo] ELSE 0,
                     Len(b) - ((3 * lo) - 3))
    ELSE Base64Groups(b, lo, (lo + hi) \div 2)
             \o Base64Groups(b, ((lo + hi) \div 2) + 1, hi)

Base64(b) ==
    Base64Groups(b, 1, (Len(b) + 2) \div 3)

\* The bytes of the characters c0 .. c3, the last n of which are =.
AtobGroup(c0, c1, c2, c3, n) ==
    SubSeq(<<(c0 * 4) + (c1 \div 16),
             ((c1 % 16) * 16) + (c2 \div 4),
             ((c2 % 4) * 64) + c3>>, 1, 3 - n)

\* The number of = that end the text (atob allows one or two, after a
\* length that is a multiple of 4).
Padding(t) ==
    IF Len(t) >= 2 /\ t[Len(t)] = 61 /\ t[Len(t) - 1] = 61 THEN 2
    ELSE IF Len(t) >= 1 /\ t[Len(t)] = 61 THEN 1
    ELSE 0

RECURSIVE AtobGroups(_, _, _)
AtobGroups(t, lo, hi) ==
    IF lo > hi THEN <<>>
    ELSE IF lo = hi
    THEN AtobGroup(Base64Val(t[(4 * lo) - 3]), Base64Val(t[(4 * lo) - 2]),
                   IF t[(4 * lo) - 1] = 61 THEN 0 ELSE Base64Val(t[(4 * lo) - 1]),
                   IF t[4 * lo] = 61 THEN 0 ELSE Base64Val(t[4 * lo]),
                   IF 4 * lo = Len(t) THEN Padding(t) ELSE 0)
    ELSE AtobGroups(t, lo, (lo + hi) \div 2)
             \o AtobGroups(t, ((lo + hi) \div 2) + 1, hi)

\* atob accepts the text: padded to a multiple of 4, base64 characters
\* only before the padding.
AtobOk(t) ==
    /\ Len(t) % 4 = 0
    /\ \A i \in 1 .. Len(t) - Padding(t) : Base64Val(t[i]) # Undef

\* base64ToBlob(base64): the bytes of the blob; callers check AtobOk.
base64ToBlob(t) ==
    AtobGroups(t, 1, Len(t) \div 4)

\* "data:image/png;base64,"
DataUrlPrefix ==
    <<100, 97, 116, 97, 58, 105, 109, 97, 103, 101, 47, 112, 110, 103, 59,
      98, 97, 115, 101, 54, 52, 44>>

\* canvas.toDataURL('image/png') and FileReader.readAsDataURL of PNG bytes
DataUrl(b) ==
    DataUrlPrefix \o Base64(b)

\* The indices of the commas of t
Commas(t) ==
    {i \in 1 .. Len(t) : t[i] = 44}

\* t.split(',')[1] for a text with a comma: what lies between the first
\* comma and the next one (or the end).
AfterComma(t, first, rest) ==
    SubSeq(t, first + 1,
           IF rest = {} THEN Len(t)
           ELSE (CHOOSE i \in rest : \A j \in rest : i <= j) - 1)

SplitSecond(t) ==
    AfterComma(t, CHOOSE i \in Commas(t) : \A j \in Commas(t) : i <= j,
               {i \in Commas(t) : \E j \in Commas(t) : j < i})

--------------------------------------------------------------------------
(***************************************************************************)
(* The TV room (pages/TVRoom.tsx): the handlers of the page, each promise  *)
(* they wait for settling in a step of its own.                            *)
(***************************************************************************)
MaxEvents == 3   \* the clicks and drops the room handles

\* "meta"
KeyMeta == <<109, 101, 116, 97>>

\* "engineState"
KeyEngineState == <<101, 110, 103, 105, 110, 101, 83, 116, 97, 116, 101>>

\* "version"
KeyVersion == <<118, 101, 114, 115, 105, 111, 110>>

\* "characterName"
KeyCharacterName ==
    <<99, 104, 97, 114, 97, 99, 116, 101, 114, 78, 97, 109, 101>>

\* "createdAt"
KeyCreatedAt == <<99, 114, 101, 97, 116, 101, 100, 65, 116>>

\* "visualStyle"
KeyVisualStyle == <<118, 105, 115, 117, 97, 108, 83, 116, 121, 108, 101>>

\* "history"
KeyHistory == <<104, 105, 115, 116, 111, 114, 121>>

\* "currentBeat"
KeyCurrentBeat == <<99, 117, 114, 114, 101, 110, 116, 66, 101, 97, 116>>

\* "loadingStage"
KeyLoadingStage == <<108, 111, 97, 100, 105, 110, 103, 83, 116, 97, 103, 101>>

\* "narrative"
KeyNarrative == <<110, 97, 114, 114, 97, 116, 105, 118, 101>>

\* "visualPrompt"
KeyVisualPrompt ==
    <<118, 105, 115, 117, 97, 108, 80, 114, 111, 109, 112, 116>>

\* "choices"
KeyChoices == <<99, 104, 111, 105, 99, 101, 115>>

\* "id"
KeyId == <<105, 100>>

\* "text"
KeyText == <<116, 101, 120, 116>>

\* "1.1"
Version11 == <<49, 46, 49>>

\* "Viewer Agent"
ViewerAgent == <<86, 105, 101, 119, 101, 114, 32, 65, 103, 101, 110, 116>>

\* "USER SAVE"
UserSave == <<85, 83, 69, 82, 32, 83, 65, 86, 69>>

\* "2025-01-01T00:00:00.000Z"
CreatedAt ==
    <<50, 48, 50, 53, 45, 48, 49, 45, 48, 49, 84, 48, 48, 58, 48, 48, 58, 48,
      48, 46, 48, 48, 48, 90>>

\* "blob:clip"
ClipUrl == <<98, 108, 111, 98, 58, 99, 108, 105, 112>>

\* s.toUpperCase() for a text of ASCII characters
ToUpperCase(s) ==
    [i \in 1 .. Len(s) |-> IF s[i] >= 97 /\ s[i] <= 122 THEN s[i] - 32 ELSE s[i]]

\* `FILMING SCENE (${style.toUpperCase()})...`
Filming(style) == [text |-> "FILMING SCENE", style |-> ToUpperCase(style)]

\* statusMsg of runLoop's catch clause for an error whose message holds
\* "429" (or quota), "405", or neither.
StatusMsg(error) ==
    IF error = "429" THEN Stage("ERR: QUOTA EXCEEDED (WAITING)")
    ELSE IF error = "405" THEN Stage("ERR: MODEL INCOMPATIBLE (405)")
    ELSE Stage("ERR: ...")

\* What generateStoryBeat and generateVideoClip reject with
LoopErrors == {"429", "other"}

Remove(s, i) == SubSeq(s, 1, i - 1) \o SubSeq(s, i + 1, Len(s))

\* v?.[key]
OptGet(v, key) ==
    IF v.t \in {"undefined", "null"} THEN JUndef ELSE Get(v, key)

\* {id, text}
Choice(id, text) == JObj(<<KeyId, KeyText>>, <<JStr(id), JStr(text)>>)

\* A story beat as the schema of generateStoryBeat requires it:
\* {"narrative":"a","visualPrompt":"v","choices":[{"id":"1","text":"go"}]}
BeatA ==
    JObj(<<KeyNarrative, KeyVisualPrompt, KeyChoices>>,
         <<JStr(<<97>>), JStr(<<118>>),
           JArr(<<Choice(<<49>>, <<103, 111>>)>>)>>)

\* A reply of the OpenRouter model without a narrative, which
\* generateStoryBeatOpenRouter returns as JSON.parse read it:
\* {"visualPrompt":"v","choices":[{"id":"1","text":"go"}]}
BeatNoNarrative ==
    JObj(<<KeyVisualPrompt, KeyChoices>>,
         <<JStr(<<118>>), JArr(<<Choice(<<49>>, <<103, 111>>)>>)>>)

\* What generateStoryBeat resolves with
StoryBeats == {BeatA, BeatNoNarrative}

\* The PNG canvas.toDataURL draws: no tEXt chunk
CanvasPng == PNG_SIGNATURE \o IhdrChunk \o IdatChunk \o IendChunk

\* captureFrame() of the tape deck: null without a 2d context or a source
\* to draw, else the base64 of a fresh PNG.
CaptureResults(gs) ==
    {JNull} \cup
    (IF gs.isLoading \/ Truthy(gs.videoUrl) \/ Truthy(gs.lastFrameBase64)
     THEN {JStr(SplitSecond(DataUrl(CanvasPng)))} ELSE {})

\* A native tape of the lobby's library:
\* {"meta":{"version":"1.1","characterName":"Viewer Agent","visualStyle":"noir"},
\*  "engineState":{"history":["a"],"currentBeat":<BeatA>,"loadingStage":"USER SAVE"}}
NativeTape ==
    JObj(<<KeyMeta, KeyEngineState>>,
         <<JObj(<<KeyVersion, KeyCharacterName, KeyVisualStyle>>,
                <<JStr(Version11), JStr(ViewerAgent), JStr(Noir)>>),
           JObj(<<KeyHistory, KeyCurrentBeat, KeyLoadingStage>>,
                <<JArr(<<JStr(<<97>>)>>), BeatA, JStr(UserSave)>>)>>)

\* A tape with an engineState that has no history, which the lobby takes
\* as it is ('engineState' in rawData):
\* {"meta":{"version":"1.1","characterName":"Viewer Agent"},
\*  "engineState":{"currentBeat":null}}
BareTape ==
    JObj(<<KeyMeta, KeyEngineState>>,
         <<JObj(<<KeyVersion, KeyCharacterName>>,
                <<JStr(Version11), JStr(ViewerAgent)>>),
           JObj(<<KeyCurrentBeat>>, <<JNull>>)>>)

\* {"engineState":null}
NullEngineTape == JObj(<<KeyEngineState>>, <<JNull>>)

\* The bytes of the PNG that carries data
TapeFile(data) == createTapeBlob(CanvasPng, data).bytes

\* The state of navigate('/tv', {state: {tapeData: tape.data,
\* tapeImgBase64: tape.imgBase64}}) for a tape of the library, whose
\* image is the file the lobby read.
TapeState(data) ==
    [tapeData |-> data, tapeImgBase64 |-> JStr(SplitSecond(DataUrl(TapeFile(data))))]

\* The data of the tapes of the library
LibraryTapes == {NativeTape, BareTape}

\* A tape of the legacy format, the engine state itself:
\* {"history":["a"],"currentBeat":<BeatA>}
LegacyTape ==
    JObj(<<KeyHistory, KeyCurrentBeat>>, <<JArr(<<JStr(<<97>>)>>), BeatA>>)

\* The files a viewer has besides the ones ejected: a tape of the legacy
\* format, one whose engineState is null, one that is no PNG.
ForeignFiles ==
    {File(TapeFile(LegacyTape), FALSE, JUndef, JUndef),
     File(TapeFile(NullEngineTape), FALSE, JUndef, JUndef),
     File(<<71, 73, 70, 56, 57, 97>>, FALSE, JUndef, JUndef)}

\* The settings getSettings resolves with: {...DEFAULT_SETTINGS, ...stored}
StoredSettings == {DEFAULT_SETTINGS}

\* useState initialiser of gameState, lines 41-55
InitialGameState(loc) ==
    IF Truthy(loc.tapeData)
    THEN [INITIAL_STATE EXCEPT
            !.currentBeat = Get(Get(loc.tapeData, KeyEngineState), KeyCurrentBeat),
            !.history = Get(Get(loc.tapeData, KeyEngineState), KeyHistory),
            !.lastFrameBase64 =
                IF Truthy(loc.tapeImgBase64) THEN loc.tapeImgBase64 ELSE JNull,
            !.loadingStage = Stage("TAPE LOADED")]
    ELSE INITIAL_STATE

\* The codec as it is while no call of Spec runs.
CodecIdle ==
    /\ crcTable = TableFrom(0, 256)
    /\ call = "none"
    /\ pc = "done"
    /\ uint8 = <<>>
    /\ stateData = JUndef
    /\ newChunk = <<>>
    /\ pos = 8
    /\ iendPos = -1
    /\ foundData = JNull
    /\ result = Pending
    /\ visited = {}
    /\ logged = 0
    /\ carrier = <<>>
    /\ blob = Pending

InitTV ==
    /\ CodecIdle
    /\ RoomIdle
    /\ LobbyStart(1)

\* The step alerts nothing and completes no drop
Quiet == alerted' = "" /\ completed' = NoFile

\* The room is shown and has not crashed
Live == page = "tv" /\ ~crashed

\* The lobby navigates to the TV room with the state loc (playNew: none),
\* and the room is built: lines 37-58.
Enter(loc) ==
    /\ page = "lobby"
    /\ page' = "tv"
    /\ locationState' = loc
    /\ gameState' = InitialGameState(loc)
    /\ files' = ForeignFiles
    /\ UNCHANGED <<codecVars, lobbyVars, events, isStarted, settings, initEffect, loops, drops,
                   alerted, crashed, completed>>

PlayNew == Enter(NoLocation)

PlayTape == \E data \in LibraryTapes : Enter(TapeState(data))

\* The style the tape of location.state overrides the settings with
TapeStyle(meta) ==
    OptGet(meta, KeyVisualStyle)

\* The settings effect, lines 61-81
LoadSettings ==
    /\ Live /\ initEffect = "pending"
    /\ initEffect' = "done"
    /\ \E globalSettings \in StoredSettings :
         settings' =
            IF /\ Truthy(locationState.tapeData)
               /\ Truthy(TapeStyle(Get(locationState.tapeData, KeyMeta)))
               /\ TapeStyle(Get(locationState.tapeData, KeyMeta)).s \in ANIMATION_STYLES
            THEN [globalSettings EXCEPT
                    !.visualStyle = TapeStyle(Get(locationState.tapeData, KeyMeta)).s]
            ELSE globalSettings
    /\ Quiet
    /\ UNCHANGED <<codecVars, lobbyVars, events, page, gameState, isStarted, locationState, loops, drops,
                   files, crashed>>

\* A click or a drop is handled: one more event
Event == events < MaxEvents /\ events' = events + 1

\* runLoop(choiceText) up to its first await, lines 88-116; frame is what
\* captureFrame returns if it is called.
RunLoop(choiceText, frame) ==
    IF gameState.isLoading THEN UNCHANGED <<gameState, loops>>
    ELSE \E capturedFrame \in
               {IF Truthy(choiceText) /\ Truthy(frame)
                THEN frame ELSE gameState.lastFrameBase64} :
            /\ gameState' = [gameState EXCEPT
                               !.isLoading = TRUE,
                               !.videoUrl = JNull,
                               !.lastFrameBase64 = capturedFrame,
                               !.loadingStage = Stage("WRITING SCRIPT...")]
            /\ loops' = Append(loops,
                               [pc |-> "story",
                                visualStyle |-> settings.visualStyle,
                                nextBeat |-> JUndef])

\* handleStart, lines 181-188, of the button shown while
\* !isStarted && !gameState.isLoading
HandleStart ==
    /\ Live /\ ~isStarted /\ ~gameState.isLoading
    /\ Event
    /\ isStarted' = TRUE
    /\ IF ~Truthy(gameState.currentBeat)
       THEN RunLoop(JNull, JNull)
       ELSE UNCHANGED <<gameState, loops>>
    /\ Quiet
    /\ UNCHANGED <<codecVars, lobbyVars, page, settings, locationState, initEffect, drops,
                   files, crashed>>

\* The choices the control panel shows, line 416
ChoicesShown ==
    IF gameState.isLoading THEN <<>>
    ELSE IF OptGet(gameState.currentBeat, KeyChoices).t = "arr"
    THEN OptGet(gameState.currentBeat, KeyChoices).kids
    ELSE <<>>

\* choices.find(c => c.id === choiceId)
FindChoice(choices, choiceId) ==
    choices[CHOOSE k \in 1 .. Len(choices) :
               /\ Get(choices[k], KeyId) = choiceId
               /\ \A j \in 1 .. k - 1 : Get(choices[j], KeyId) # choiceId]

\* handleChoice, lines 190-195, of a choice button, enabled while
\* !(gameState.isLoading || !isStarted)
HandleChoice ==
    /\ Live /\ isStarted /\ ~gameState.isLoading
    /\ Event
    /\ \E k \in 1 .. Len(ChoicesShown) :
         \E frame \in CaptureResults(gameState) :
            RunLoop(Get(FindChoice(ChoicesShown, Get(ChoicesShown[k], KeyId)), KeyText),
                    frame)
    /\ Quiet
    /\ UNCHANGED <<codecVars, lobbyVars, page, isStarted, settings, locationState, initEffect,
                   drops, files, crashed>>

\* generateStoryBeat resolves and the beat is shown at once: the update
\* of lines 118-122 with currentBeat set as well.
StoryResolvesSpoils(i) ==
    /\ Live /\ loops[i].pc = "story"
    /\ \E nextBeat \in StoryBeats :
         /\ loops' = [loops EXCEPT ![i].pc = "video", ![i].nextBeat = nextBeat]
         /\ gameState' = [gameState EXCEPT
                            !.currentBeat = nextBeat,
                            !.loadingStage = Filming(loops[i].visualStyle)]
    /\ Quiet
    /\ UNCHANGED <<codecVars, lobbyVars, events, page, isStarted, settings, locationState, initEffect,
                   drops, files, crashed>>

\* generateStoryBeat resolves, lines 112-122
StoryResolves(i) ==
    /\ Live /\ loops[i].pc = "story"
    /\ \E nextBeat \in StoryBeats :
         loops' = [loops EXCEPT ![i].pc = "video", ![i].nextBeat = nextBeat]
    /\ gameState' = [gameState EXCEPT
                       !.loadingStage = Filming(loops[i].visualStyle)]
    /\ Quiet
    /\ UNCHANGED <<codecVars, lobbyVars, events, page, isStarted, settings, locationState, initEffect,
                   drops, files, crashed>>

\* The catch clause of runLoop, lines 155-178
LoopCatch(i, error) ==
    /\ gameState' = [gameState EXCEPT
                       !.isLoading = FALSE,
                       !.loadingStage = StatusMsg(error)]
    /\ loops' = Remove(loops, i)
    /\ Quiet
    /\ UNCHANGED <<codecVars, lobbyVars, events, page, isStarted, settings, locationState, initEffect,
                   drops, files, crashed>>

\* generateStoryBeat rejects
StoryRejects(i) ==
    /\ Live /\ loops[i].pc = "story"
    /\ \E error \in LoopErrors : LoopCatch(i, error)

\* The reveal of lines 146-153 with the video URL and the status.  The
\* updater spreads prev.history: it throws for a history that is no array,
\* and an updater that throws takes the page down at the next render.
Reveal(i, newVideoUrl, status) ==
    /\ IF gameState.history.t = "arr"
       THEN /\ gameState' = [gameState EXCEPT
                               !.currentBeat = loops[i].nextBeat,
                               !.videoUrl = newVideoUrl,
                               !.isLoading = FALSE,
                               !.loadingStage = Stage(status),
                               !.history =
                                  JArr(Append(gameState.history.kids,
                                              Get(loops[i].nextBeat, KeyNarrative)))]
            /\ UNCHANGED crashed
       ELSE /\ crashed' = TRUE
            /\ UNCHANGED gameState
    /\ loops' = Remove(loops, i)
    /\ Quiet
    /\ UNCHANGED <<codecVars, lobbyVars, events, page, isStarted, settings, locationState, initEffect,
                   drops, files>>

\* generateVideoClip resolves, lines 129-134
VideoResolves(i) ==
    /\ Live /\ loops[i].pc = "video"
    /\ Reveal(i, JStr(ClipUrl), "PLAYBACK")

\* generateVideoClip rejects with VIDEO_GEN_UNSUPPORTED_PROVIDER,
\* lines 135-139
VideoUnsupported(i) ==
    /\ Live /\ loops[i].pc = "video"
    /\ Reveal(i, JNull, "TEXT-ONLY MODE (OPENROUTER)")

\* generateVideoClip rejects with another error, lines 140-142
VideoRejects(i) ==
    /\ Live /\ loops[i].pc = "video"
    /\ \E error \in LoopErrors : LoopCatch(i, error)

\* saveState of handleEject, lines 211-223
SaveState ==
    JObj(<<KeyMeta, KeyEngineState>>,
         <<JObj(<<KeyVersion, KeyCharacterName, KeyCreatedAt, KeyVisualStyle>>,
                <<JStr(Version11),
                  IF Truthy(OptGet(OptGet(locationState.tapeData, KeyMeta),
                                   KeyCharacterName))
                  THEN OptGet(OptGet(locationState.tapeData, KeyMeta),
                              KeyCharacterName)
                  ELSE JStr(ViewerAgent),
                  JStr(CreatedAt),
                  JStr(settings.visualStyle)>>),
           JObj(<<KeyHistory, KeyCurrentBeat, KeyLoadingStage>>,
                <<gameState.history, gameState.currentBeat, JStr(UserSave)>>)>>)

\* Lines 209-235 for the frame to save and what createTapeBlob made of it:
\* the file is saved, or the catch clause alerts; a call that never
\* settles leaves nothing.
EjectEnd(r) ==
    IF r.kind = "blob" /\ Get(Get(SaveState, KeyMeta), KeyCharacterName).t = "str"
    THEN /\ files' = files \cup
                {File(r.bytes, TRUE, gameState.history, gameState.currentBeat)}
         /\ alerted' = ""
    ELSE IF r.kind = "never"
    THEN alerted' = "" /\ UNCHANGED files
    ELSE /\ alerted' = "Failed to eject tape."
         /\ UNCHANGED files

\* Lines 204-235 for the frame to save
EjectFrame(currentFrameBase64) ==
    IF ~Truthy(currentFrameBase64)
    THEN /\ alerted' = "No footage to save."
         /\ UNCHANGED files
    ELSE IF ~AtobOk(currentFrameBase64.s)
    THEN /\ alerted' = "Failed to eject tape."
         /\ UNCHANGED files
    ELSE \E r \in {createTapeBlob(base64ToBlob(currentFrameBase64.s), SaveState)} :
            EjectEnd(r)

\* handleEject, lines 197-236, of the eject button, enabled while
\* !(gameState.isLoading || !isStarted)
HandleEject ==
    /\ Live /\ isStarted /\ ~gameState.isLoading
    /\ Event
    /\ \E frame \in CaptureResults(gameState) :
         EjectFrame(IF gameState.isLoading \/ ~Truthy(frame)
                    THEN gameState.lastFrameBase64 ELSE frame)
    /\ completed' = NoFile
    /\ UNCHANGED <<codecVars, lobbyVars, page, gameState, isStarted, settings, locationState,
                   initEffect, loops, drops, crashed>>

\* onDrop up to its first await, lines 248-256
OnDrop ==
    /\ Live
    /\ Event
    /\ \E file \in files :
         /\ file.type = "image/png"
         /\ drops' = Append(drops, [pc |-> "read", file |-> file,
                                    loadedState |-> JUndef])
    /\ gameState' = [gameState EXCEPT
                       !.isLoading = TRUE,
                       !.loadingStage = Stage("READING TAPE...")]
    /\ Quiet
    /\ UNCHANGED <<codecVars, lobbyVars, page, isStarted, settings, locationState, initEffect,
                   loops, files, crashed>>

\* The catch clause of onDrop, lines 292-296
DropCatch(i) ==
    /\ alerted' = "Invalid Tape Card."
    /\ gameState' = [gameState EXCEPT
                       !.isLoading = FALSE,
                       !.loadingStage = Stage("READ ERROR")]
    /\ drops' = Remove(drops, i)
    /\ UNCHANGED settings

\* Lines 258-278 for the rawData read: 'engineState' in rawData throws for
\* a rawData that is no object.
DropLoaded(i, rawData) ==
    IF ~IsObject(rawData) THEN DropCatch(i)
    ELSE /\ drops' = [drops EXCEPT
                        ![i].pc = "load",
                        ![i].loadedState =
                            IF HasKey(rawData, KeyEngineState)
                            THEN Get(rawData, KeyEngineState) ELSE rawData]
         /\ settings' =
               IF /\ HasKey(rawData, KeyEngineState)
                  /\ Truthy(Get(rawData, KeyMeta))
                  /\ Truthy(TapeStyle(Get(rawData, KeyMeta)))
                  /\ TapeStyle(Get(rawData, KeyMeta)).s \in ANIMATION_STYLES
               THEN [settings EXCEPT
                       !.visualStyle = TapeStyle(Get(rawData, KeyMeta)).s]
               ELSE settings
         /\ alerted' = ""
         /\ UNCHANGED gameState

\* readTapeData settles, lines 256-278 and 292-296
DropRead(i) ==
    /\ Live /\ drops[i].pc = "read"
    /\ \E r \in {readTapeData(drops[i].file.bytes)} :
         /\ r.kind # "never"
         /\ IF r.kind = "error" THEN DropCatch(i) ELSE DropLoaded(i, r.state)
    /\ completed' = NoFile
    /\ UNCHANGED <<codecVars, lobbyVars, events, page, isStarted, locationState, initEffect, loops,
                   files, crashed>>

\* reader.onloadend, lines 279-290: loadedState.currentBeat throws for a
\* loadedState that is null, and nothing catches it.
DropLoadEnd(i) ==
    /\ Live /\ drops[i].pc = "load"
    /\ drops' = Remove(drops, i)
    /\ alerted' = ""
    /\ IF drops[i].loadedState.t \in {"null", "undefined"}
       THEN /\ completed' = NoFile
            /\ UNCHANGED <<gameState, isStarted>>
       ELSE /\ gameState' =
                 [videoUrl |-> JNull,
                  currentBeat |-> Get(drops[i].loadedState, KeyCurrentBeat),
                  lastFrameBase64 |-> JStr(SplitSecond(DataUrl(drops[i].file.bytes))),
                  history |->
                     IF Truthy(Get(drops[i].loadedState, KeyHistory))
                     THEN Get(drops[i].loadedState, KeyHistory) ELSE JArr(<<>>),
                  isLoading |-> FALSE,
                  loadingStage |-> Stage("TAPE LOADED - READY")]
            /\ isStarted' = TRUE
            /\ completed' = drops[i].file
    /\ UNCHANGED <<codecVars, lobbyVars, events, page, settings, locationState, initEffect, loops,
                   files, crashed>>

NextTV ==
    \/ PlayNew
    \/ PlayTape
    \/ LoadSettings
    \/ HandleStart
    \/ HandleChoice
    \/ \E i \in 1 .. Len(loops) : StoryResolves(i)
    \/ \E i \in 1 .. Len(loops) : StoryRejects(i)
    \/ \E i \in 1 .. Len(loops) : VideoResolves(i)
    \/ \E i \in 1 .. Len(loops) : VideoUnsupported(i)
    \/ \E i \in 1 .. Len(loops) : VideoRejects(i)
    \/ HandleEject
    \/ OnDrop
    \/ \E i \in 1 .. Len(drops) : DropRead(i)
    \/ \E i \in 1 .. Len(drops) : DropLoadEnd(i)

SpecTV == InitTV /\ [][NextTV]_vars

--------------------------------------------------------------------------
(***************************************************************************)
(* C10.  Ejecting a session with handleEject and later dropping the file   *)
(* that results onto the TV room restores the session: when the drop       *)
(* completes, gameState.history and gameState.currentBeat equal their      *)
(* values at the moment of the eject, and isLoading is false.              *)
(***************************************************************************)
EjectRestores ==
    completed.ejected =>
        /\ DeepEqual(gameState.history, completed.history)
        /\ DeepEqual(gameState.currentBeat, completed.currentBeat)
        /\ ~gameState.isLoading

\* The drop of an ejected file has completed: the session was ejected
\* with the history [undefined] (a beat without narrative was revealed)
\* and the room now holds the history [null].
EjectRestoresWitness ==
    /\ completed.ejected
    /\ completed.history = JArr(<<JUndef>>)
    /\ gameState.history = JArr(<<JNull>>)
    /\ gameState.loadingStage = Stage("TAPE LOADED - READY")

--------------------------------------------------------------------------
(***************************************************************************)
(* The lobby (pages/Lobby.tsx), in its two versions: version 1 wraps a     *)
(* payload without engineState as a legacy engine state, version 2 reads   *)
(* it as a character card.                                                 *)
(***************************************************************************)
MaxImports == 2   \* the drops the lobby handles

\* "data"
KeyData == <<100, 97, 116, 97>>

\* "character"
KeyCharacter == <<99, 104, 97, 114, 97, 99, 116, 101, 114>>

\* "name"
KeyName == <<110, 97, 109, 101>>

\* "scenario"
KeyScenario == <<115, 99, 101, 110, 97, 114, 105, 111>>

\* "description"
KeyDescription == <<100, 101, 115, 99, 114, 105, 112, 116, 105, 111, 110>>

\* "personality"
KeyPersonality == <<112, 101, 114, 115, 111, 110, 97, 108, 105, 116, 121>>

\* "first_mes"
KeyFirstMes == <<102, 105, 114, 115, 116, 95, 109, 101, 115>>

\* "initial_prompt"
KeyInitialPrompt ==
    <<105, 110, 105, 116, 105, 97, 108, 95, 112, 114, 111, 109, 112, 116>>

\* "0.0"
Version00 == <<48, 46, 48>>

\* "1.0"
Version10 == <<49, 46, 48>>

\* "Unknown"
Unknown == <<85, 110, 107, 110, 111, 119, 110>>

\* "A mysterious sequence of events."
DefaultScenario ==
    <<65, 32, 109, 121, 115, 116, 101, 114, 105, 111, 117, 115, 32, 115, 101,
      113, 117, 101, 110, 99, 101, 32, 111, 102, 32, 101, 118, 101, 110, 116,
      115, 46>>

\* "Unknown entity."
DefaultPersonality ==
    <<85, 110, 107, 110, 111, 119, 110, 32, 101, 110, 116, 105, 116, 121, 46>>

\* "CARD IMPORT"
CardImport == <<67, 65, 82, 68, 32, 73, 77, 80, 79, 82, 84>>

\* "RAW IMPORT"
RawImport == <<82, 65, 87, 32, 73, 77, 80, 79, 82, 84>>

\* a || b
Or(a, b) == IF Truthy(a) THEN a ELSE b

RECURSIVE TemplateText(_)
RECURSIVE JoinText(_, _)
\* Array.prototype.join(",") from element i on: null and undefined give "".
JoinText(kids, i) ==
    IF i > Len(kids) THEN <<>>
    ELSE (IF i > 1 THEN <<44>> ELSE <<>>)
         \o (IF kids[i].t \in {"undefined", "null"} THEN <<>>
             ELSE TemplateText(kids[i]))
         \o JoinText(kids, i + 1)

\* `${v}`: the text a template literal writes for v.
TemplateText(v) ==
    IF v.t = "str" THEN v.s
    ELSE IF v.t = "num" THEN NumberToString(v.n)
    ELSE IF v.t = "true" THEN <<116, 114, 117, 101>>
    ELSE IF v.t = "false" THEN <<102, 97, 108, 115, 101>>
    ELSE IF v.t = "null" THEN <<110, 117, 108, 108>>
    ELSE IF v.t = "undefined" THEN <<117, 110, 100, 101, 102, 105, 110, 101, 100>>
    ELSE IF v.t = "arr" THEN JoinText(v.kids, 1)
    ELSE <<91, 111, 98, 106, 101, 99, 116, 32, 79, 98, 106, 101, 99, 116, 93>>

\* `The story of ${charName} begins.`
StoryOf(charName) ==
    <<84, 104, 101, 32, 115, 116, 111, 114, 121, 32, 111, 102, 32>>
    \o TemplateText(charName) \o <<32, 98, 101, 103, 105, 110, 115, 46>>

\* `SERIES CONTEXT:\nCharacter: ${charName}\nPersonality/Description:
\* ${personality}\nScenario/Theme: ${scenario}`
ContextEntry(charName, personality, scenario) ==
    <<83, 69, 82, 73, 69, 83, 32, 67, 79, 78, 84, 69, 88, 84, 58, 10, 67,
      104, 97, 114, 97, 99, 116, 101, 114, 58, 32>>
    \o TemplateText(charName)
    \o <<10, 80, 101, 114, 115, 111, 110, 97, 108, 105, 116, 121, 47, 68,
         101, 115, 99, 114, 105, 112, 116, 105, 111, 110, 58, 32>>
    \o TemplateText(personality)
    \o <<10, 83, 99, 101, 110, 97, 114, 105, 111, 47, 84, 104, 101, 109,
         101, 58, 32>>
    \o TemplateText(scenario)

\* `A cinematic shot of ${charName} in this setting: ${scenario}.
\* ${personality}`
CardPrompt(charName, personality, scenario) ==
    <<65, 32, 99, 105, 110, 101, 109, 97, 116, 105, 99, 32, 115, 104, 111,
      116, 32, 111, 102, 32>>
    \o TemplateText(charName)
    \o <<32, 105, 110, 32, 116, 104, 105, 115, 32, 115, 101, 116, 116, 105,
         110, 103, 58, 32>>
    \o TemplateText(scenario) \o <<46, 32>>
    \o TemplateText(personality)

\* The four choices of an imported card
CardChoices ==
    JArr(<<Choice(<<49>>, <<76, 111, 111, 107, 32, 97, 114, 111, 117, 110, 100>>),
           Choice(<<50>>, <<77, 111, 118, 101, 32, 102, 111, 114, 119, 97, 114, 100>>),
           Choice(<<51>>,
                  <<67, 104, 101, 99, 107, 32, 105, 110, 118, 101, 110, 116, 111, 114, 121>>),
           Choice(<<52>>, <<87, 97, 105, 116>>)>>)

\* The envelope of normalizeCardData once its four texts are known.
CardEnvelope(charName, scenario, personality, firstMes) ==
    JObj(<<KeyMeta, KeyEngineState>>,
         <<JObj(<<KeyVersion, KeyCharacterName, KeyCreatedAt>>,
                <<JStr(Version10), charName, JStr(CreatedAt)>>),
           JObj(<<KeyHistory, KeyCurrentBeat, KeyLoadingStage>>,
                <<JArr(<<JStr(ContextEntry(charName, personality, scenario)),
                         firstMes>>),
                  JObj(<<KeyNarrative, KeyVisualPrompt, KeyChoices>>,
                       <<firstMes,
                         JStr(CardPrompt(charName, personality, scenario)),
                         CardChoices>>),
                  JStr(CardImport)>>)>>)

\* scenario, personality and firstMes of normalizeCardData, given charName
CardWithName(json, charName) ==
    CardEnvelope(
        charName,
        Or(OptGet(Get(json, KeyData), KeyScenario),
           Or(Get(json, KeyScenario),
              Or(OptGet(Get(json, KeyCharacter), KeyScenario),
                 JStr(DefaultScenario)))),
        Or(OptGet(Get(json, KeyData), KeyDescription),
           Or(Get(json, KeyPersonality),
              Or(Get(json, KeyDescription),
                 Or(OptGet(Get(json, KeyCharacter), KeyDescription),
                    JStr(DefaultPersonality))))),
        Or(OptGet(Get(json, KeyData), KeyFirstMes),
           Or(Get(json, KeyFirstMes),
              Or(Get(json, KeyInitialPrompt), JStr(StoryOf(charName))))))

\* normalizeCardData(json) for a json that is neither null nor undefined
\* (for those json.data throws a TypeError).
normalizeCardData(json) ==
    CardWithName(json,
        Or(OptGet(Get(json, KeyData), KeyName),
           Or(OptGet(Get(json, KeyCharacter), KeyName),
              Or(Get(json, KeyName), JStr(Unknown)))))

\* The envelope version 1 of the lobby builds around a payload without
\* engineState.
LegacyEnvelope(rawData) ==
    JObj(<<KeyMeta, KeyEngineState>>,
         <<JObj(<<KeyVersion, KeyCharacterName>>,
                <<JStr(Version00), JStr(Unknown)>>),
           rawData>>)

\* The branch on 'engineState' in rawData of the lobby of version b, for a
\* rawData that is an object or an array (for any other value the in
\* operator throws a TypeError).
Normalize(b, rawData) ==
    IF HasKey(rawData, KeyEngineState) THEN rawData
    ELSE IF b = 1 THEN LegacyEnvelope(rawData)
    ELSE normalizeCardData(rawData)

\* ".json"
DotJson == <<46, 106, 115, 111, 110>>

\* "-tapecard"
TapeCardSuffix == <<45, 116, 97, 112, 101, 99, 97, 114, 100>>

\* "Play Tape"
PlayTapeText == <<80, 108, 97, 121, 32, 84, 97, 112, 101>>

\* "{"name":"Al"}"
CardJson == <<123, 34, 110, 97, 109, 101, 34, 58, 34, 65, 108, 34, 125>>

\* "al.json"
CardName == <<97, 108, 46, 106, 115, 111, 110>>

\* "Al-TapeCard.png"
TapeName ==
    <<65, 108, 45, 84, 97, 112, 101, 67, 97, 114, 100, 46, 112, 110, 103>>

\* "cat.gif"
PictureName == <<99, 97, 116, 46, 103, 105, 102>>

OnlyPng == "Only PNG tapes accepted."

CorruptOrInvalid == "Corrupt or invalid tape data."

InvalidMedia == "Invalid media format. PNG or JSON only."

DataCorrupted == "Data corrupted."

ToLowerCase(s) ==
    [i \in 1 .. Len(s) |-> IF s[i] >= 65 /\ s[i] <= 90 THEN s[i] + 32 ELSE s[i]]

\* s.endsWith(suffix)
EndsWith(s, suffix) ==
    /\ Len(s) >= Len(suffix)
    /\ SubSeq(s, Len(s) - Len(suffix) + 1, Len(s)) = suffix

\* The positions of the dots of name
Dots(name) ==
    {i \in 1 .. Len(name) : name[i] = 46}

\* name.replace(/\.[^/.]+$/, ""), given the dots of the name: the last dot
\* and what follows it go when at least one character follows and none of
\* them is a slash.
DropFrom(name, dots) ==
    IF dots = {} THEN name
    ELSE IF \E d \in dots :
                /\ \A e \in dots : e <= d
                /\ d < Len(name)
                /\ \A i \in d + 1 .. Len(name) : name[i] # 47
         THEN SubSeq(name, 1, (CHOOSE d \in dots : \A e \in dots : e <= d) - 1)
         ELSE name

StripExtension(name) == DropFrom(name, Dots(name))

\* name.replace(/-TapeCard$/i, "")
StripTapeCard(name) ==
    IF EndsWith(ToLowerCase(name), TapeCardSuffix)
    THEN SubSeq(name, 1, Len(name) - Len(TapeCardSuffix))
    ELSE name

\* `SERIES CONTEXT:\nCharacter: ${charName}\nNote: Imported from raw image
\* file.`
RawContext(charName) ==
    <<83, 69, 82, 73, 69, 83, 32, 67, 79, 78, 84, 69, 88, 84, 58, 10, 67,
      104, 97, 114, 97, 99, 116, 101, 114, 58, 32>>
    \o charName
    \o <<10, 78, 111, 116, 101, 58, 32, 73, 109, 112, 111, 114, 116, 101,
         100, 32, 102, 114, 111, 109, 32, 114, 97, 119, 32, 105, 109, 97,
         103, 101, 32, 102, 105, 108, 101, 46>>

\* `The tape labeled "${charName}" is loaded.`
LabeledText(charName) ==
    <<84, 104, 101, 32, 116, 97, 112, 101, 32, 108, 97, 98, 101, 108, 101,
      100, 32, 34>>
    \o charName \o <<34, 32, 105, 115, 32, 108, 111, 97, 100, 101, 100, 46>>

\* `A cinematic shot of ${charName}, highly detailed stop-motion animation.`
RawPrompt(charName) ==
    <<65, 32, 99, 105, 110, 101, 109, 97, 116, 105, 99, 32, 115, 104, 111,
      116, 32, 111, 102, 32>>
    \o charName
    \o <<44, 32, 104, 105, 103, 104, 108, 121, 32, 100, 101, 116, 97, 105,
         108, 101, 100, 32, 115, 116, 111, 112, 45, 109, 111, 116, 105, 111,
         110, 32, 97, 110, 105, 109, 97, 116, 105, 111, 110, 46>>

\* The envelope version 2 of the lobby builds for a PNG without tape data,
\* labeled by the name of the file.
RawEnvelope(charName) ==
    JObj(<<KeyMeta, KeyEngineState>>,
         <<JObj(<<KeyVersion, KeyCharacterName, KeyCreatedAt>>,
                <<JStr(Version10), JStr(charName), JStr(CreatedAt)>>),
           JObj(<<KeyHistory, KeyCurrentBeat, KeyLoadingStage>>,
                <<JArr(<<JStr(RawContext(charName))>>),
                  JObj(<<KeyNarrative, KeyVisualPrompt, KeyChoices>>,
                       <<JStr(LabeledText(charName)),
                         JStr(RawPrompt(charName)),
                         JArr(<<Choice(<<49>>, PlayTapeText)>>)>>),
                  JStr(RawImport)>>)>>)

\* A file of the viewer
LobbyFile(name, type, bytes) ==
    [name |-> name, type |-> type, bytes |-> bytes]

\* A tape of the library (its id and timestamp are left out)
StoredTape(characterName, imgBase64, data) ==
    [characterName |-> characterName, imgBase64 |-> imgBase64, data |-> data]

NoTape == StoredTape(JUndef, <<>>, JUndef)

\* How the body of the loop over the dropped files ends for one file: with
\* a tape to save, in the catch clause, or in a rejection nobody handles.
Imported(tape) == [kind |-> "tape", error |-> "", tape |-> tape]

Failed(msg) == [kind |-> "error", error |-> msg, tape |-> NoTape]

Unhandled == [kind |-> "unhandled", error |-> "", tape |-> NoTape]

\* generatePlaceholderImage: the base64 of what a canvas draws
PlaceholderImage == SplitSecond(DataUrl(CanvasPng))

\* newTape: normalizedData.meta.characterName throws a TypeError when meta
\* is null or undefined; version 1 builds the tape in an async onloadend
\* handler, outside the try of onDrop.
NewTape(b, data, img) ==
    IF Get(data, KeyMeta).t \in {"undefined", "null"}
    THEN (IF b = 1 THEN Unhandled ELSE Failed(DataCorrupted))
    ELSE Imported(StoredTape(Or(Get(Get(data, KeyMeta), KeyCharacterName),
                                JStr(Unknown)),
                             img, data))

\* The loop body of version 1 for a PNG file on which readTapeData ended
\* with r.
ImportPng1(file, r) ==
    IF r.kind = "error" \/ ~IsObject(r.state) THEN Failed(CorruptOrInvalid)
    ELSE NewTape(1, Normalize(1, r.state), SplitSecond(DataUrl(file.bytes)))

\* The loop body of version 2 for a PNG file on which readTapeData ended
\* with r.
ImportPng2(file, r) ==
    IF r.kind = "error"
    THEN (IF r.msg = NoTapeData
          THEN NewTape(2, RawEnvelope(StripTapeCard(StripExtension(file.name))),
                       SplitSecond(DataUrl(file.bytes)))
          ELSE Failed(DataCorrupted))
    ELSE IF ~IsObject(r.state) THEN Failed(DataCorrupted)
    ELSE NewTape(2, Normalize(2, r.state), SplitSecond(DataUrl(file.bytes)))

\* The loop body of version 2 for a JSON file whose text parses as r.
ImportJson(r) ==
    IF ~r.ok \/ r.v.t \in {"undefined", "null"} THEN Failed(DataCorrupted)
    ELSE NewTape(2, normalizeCardData(r.v), PlaceholderImage)

IsJson(file) ==
    EndsWith(ToLowerCase(file.name), DotJson) \/ file.type = "application/json"

\* The filter of onDrop of the lobby
AcceptedByLobby(b, file) ==
    file.type = "image/png" \/ (b = 2 /\ IsJson(file))

\* What the loop body of the lobby of version b does with an accepted file;
\* readTapeData does not end on some files, and then nothing follows.
ImportOutcome(b, file) ==
    IF b = 2 /\ IsJson(file) THEN ImportJson(JSONparse(bytesToText(file.bytes)))
    ELSE IF b = 1 THEN ImportPng1(file, readTapeData(file.bytes))
    ELSE ImportPng2(file, readTapeData(file.bytes))

\* A payload that is no object: 7
NumberTape == JNum(7)

\* The files a viewer drops onto the lobby: tapes of the legacy format, of
\* the native format with and without history, with a null engineState,
\* with a number as payload; a PNG without tape data; a card as JSON; a GIF.
LobbyFiles ==
    {LobbyFile(TapeName, "image/png", TapeFile(LegacyTape)),
     LobbyFile(TapeName, "image/png", TapeFile(NativeTape)),
     LobbyFile(TapeName, "image/png", TapeFile(BareTape)),
     LobbyFile(TapeName, "image/png", TapeFile(NullEngineTape)),
     LobbyFile(TapeName, "image/png", TapeFile(NumberTape)),
     LobbyFile(TapeName, "image/png", CanvasPng),
     LobbyFile(CardName, "application/json", CardJson),
     LobbyFile(PictureName, "image/gif", <<71, 73, 70, 56, 57, 97>>)}

\* The effect of the lobby: getLibrary resolves with the stored tapes, none
\* in a fresh browser profile, and the finally clause ends the loading.
LoadLibrary ==
    /\ page = "lobby"
    /\ lobbyLoading
    /\ library' = stored
    /\ lobbyLoading' = FALSE
    /\ lobbyFiles' = LobbyFiles
    /\ UNCHANGED <<codecVars, tvVars, build, lobbyError, imports, stored,
                   calls>>

\* onDrop of the lobby up to its first await, for a drop of one file.
LobbyOnDrop ==
    /\ page = "lobby"
    /\ events < MaxImports
    /\ events' = events + 1
    /\ \E file \in lobbyFiles :
          IF AcceptedByLobby(build, file)
          THEN /\ lobbyError' = ""
               /\ imports' = Append(imports, [pc |-> "read", file |-> file,
                                              tape |-> NoTape])
          ELSE /\ lobbyError' = (IF build = 1 THEN OnlyPng ELSE InvalidMedia)
               /\ imports' = imports
    /\ UNCHANGED <<codecVars, page, gameState, isStarted, settings,
                   locationState, initEffect, loops, drops, files, alerted,
                   crashed, completed, build, library, lobbyLoading,
                   lobbyFiles, stored, calls>>

\* The loop body once the file is read, up to await saveTapeToLibrary.
LobbyReadEnds(i, outcome) ==
    /\ imports' = (IF outcome.kind = "tape"
                   THEN [imports EXCEPT ![i] = [pc |-> "save",
                                                file |-> imports[i].file,
                                                tape |-> outcome.tape]]
                   ELSE Remove(imports, i))
    /\ lobbyError' = (IF outcome.kind = "error" THEN outcome.error
                      ELSE lobbyError)

LobbyRead(i) ==
    /\ page = "lobby"
    /\ i \in 1 .. Len(imports)
    /\ imports[i].pc = "read"
    /\ LobbyReadEnds(i, ImportOutcome(build, imports[i].file))
    /\ UNCHANGED <<codecVars, tvVars, build, library, lobbyLoading, lobbyFiles,
                   stored, calls>>

\* saveTapeToLibrary has resolved: setLibrary(prev => [newTape, ...prev])
LobbyStore(i) ==
    /\ page = "lobby"
    /\ i \in 1 .. Len(imports)
    /\ imports[i].pc = "save"
    /\ library' = <<imports[i].tape>> \o library
    /\ imports' = Remove(imports, i)
    /\ UNCHANGED <<codecVars, tvVars, build, lobbyError, lobbyLoading,
                   lobbyFiles, stored, calls>>

\* playTape(tape) for a tape of the library
LobbyPlayTape ==
    \E i \in 1 .. Len(library) :
        Enter([tapeData |-> library[i].data,
               tapeImgBase64 |-> JStr(library[i].imgBase64)])

InitLobby ==
    /\ CodecIdle
    /\ RoomIdle
    /\ \E b \in {1, 2} : LobbyStart(b)

NextLobby ==
    \/ LoadLibrary
    \/ LobbyOnDrop
    \/ \E i \in 1 .. Len(imports) : LobbyRead(i)
    \/ \E i \in 1 .. Len(imports) : LobbyStore(i)
    \/ LobbyPlayTape
    \/ PlayNew

SpecLobby == InitLobby /\ [][NextLobby]_vars

(***************************************************************************)
(* C11.  Legacy normalisation: when the payload read from a dropped PNG    *)
(* has no engineState key, the envelope the lobby builds has that payload, *)
(* unchanged, as its engineState, and the legacy default as its meta       *)
(* (version "0.0", characterName "Unknown").                               *)
(***************************************************************************)
LegacyMeta ==
    JObj(<<KeyVersion, KeyCharacterName>>, <<JStr(Version00), JStr(Unknown)>>)

\* The tape built from a file on which readTapeData ended with r
LegacyKept(tape, r) ==
    (r.kind = "state" /\ ~HasKey(r.state, KeyEngineState))
        => /\ DeepEqual(Get(tape.data, KeyEngineState), r.state)
           /\ DeepEqual(Get(tape.data, KeyMeta), LegacyMeta)

LegacyNormalized ==
    \A i \in 1 .. Len(imports) :
        (imports[i].pc = "save" /\ imports[i].file.type = "image/png")
            => LegacyKept(imports[i].tape, readTapeData(imports[i].file.bytes))

\* Version 2 has read the tape {"history":["a"],"currentBeat":...} as a
\* character card: the history to be saved is not ["a"].
LegacyNormalizedWitness ==
    \E i \in 1 .. Len(imports) :
        /\ imports[i].pc = "save"
        /\ imports[i].file.bytes = TapeFile(LegacyTape)
        /\ build = 2
        /\ Len(Get(Get(imports[i].tape.data, KeyEngineState), KeyHistory).kids) = 2
        /\ Get(Get(imports[i].tape.data, KeyMeta), KeyVersion) = JStr(Version10)

\* Version 1 keeps the payload of a legacy tape as the engine state.
LegacyNormalizedV1 ==
    build = 1 => LegacyNormalized

LegacyNormalizedV1Witness ==
    \E i \in 1 .. Len(imports) :
        /\ imports[i].pc = "save"
        /\ imports[i].file.bytes = TapeFile(LegacyTape)
        /\ build = 1
        /\ Get(imports[i].tape.data, KeyEngineState) = LegacyTape

(***************************************************************************)
(* C12.  History is a sequence: once the TV room shows a session, whether  *)
(* its tape was played from the lobby's library or dropped onto the room,  *)
(* gameState.history is never undefined.                                   *)
(***************************************************************************)
HistoryDefined ==
    page = "tv" => gameState.history.t # "undefined"

\* The lobby has imported the tape {"meta":..,"engineState":{"currentBeat":
\* null}} as it is, and the room that plays it starts without a history.
HistoryDefinedWitness ==
    /\ page = "tv"
    /\ locationState.tapeData = BareTape
    /\ \E i \in 1 .. Len(library) : library[i].data = BareTape
    /\ gameState.history = JUndef
    /\ gameState.loadingStage = Stage("TAPE LOADED")

(***************************************************************************)
(* C13.  Nothing from a failed read: when readTapeData throws on a dropped *)
(* PNG, the lobby builds no tape from the file (none is saved, none joins  *)
(* the library).                                                           *)
(***************************************************************************)
NothingFromFailedRead ==
    \A i \in 1 .. Len(imports) :
        (imports[i].pc = "save" /\ imports[i].file.type = "image/png")
            => readTapeData(imports[i].file.bytes).kind # "error"

\* Version 2 has put a tape labeled by the file's name into the library
\* for a PNG that holds no tape data.
NothingFromFailedReadWitness ==
    /\ build = 2
    /\ lobbyError = ""
    /\ readTapeData(CanvasPng) = Thrown(NoTapeData)
    /\ \E i \in 1 .. Len(library) :
          /\ library[i].data = RawEnvelope(<<65, 108>>)
          /\ library[i].imgBase64 = Base64(CanvasPng)

\* Version 1 builds a tape only from a file that readTapeData has read.
NothingFromFailedReadV1 ==
    build = 1 => NothingFromFailedRead

--------------------------------------------------------------------------
(***************************************************************************)
(* crc32 called on its own: one call per buffer.                           *)
(***************************************************************************)
MaxCrcLen == 3   \* the longest buffer over CrcBytes

CrcBytes == {0, 1, 97, 128, 255}

\* Every buffer of at most one byte, and the longer ones over CrcBytes.
CrcInputs ==
    {<<>>} \cup {<<b>> : b \in 0 .. 255}
        \cup UNION {[1 .. k -> CrcBytes] : k \in 2 .. MaxCrcLen}

InitCrc ==
    /\ RoomIdle
    /\ LobbyStart(1)
    /\ crcTable = TableFrom(0, 256)
    /\ call = "crc32"
    /\ pc = "call"
    /\ uint8 \in CrcInputs
    /\ stateData = JUndef
    /\ newChunk = <<>>
    /\ pos = 8
    /\ iendPos = -1
    /\ foundData = JNull
    /\ result = Pending
    /\ visited = {}
    /\ logged = 0
    /\ carrier = uint8
    /\ blob = Pending

\* crc32(uint8) returns a number.
Crc32Call ==
    /\ call = "crc32"
    /\ pc = "call"
    /\ result' = Res("number", "", <<>>, JNum(crc32(uint8)))
    /\ pc' = "done"
    /\ UNCHANGED <<crcTable, call, uint8, stateData, newChunk, pos, iendPos,
                   foundData, visited, logged, carrier, blob, tvVars,
                   lobbyVars>>

NextCrc == Crc32Call

SpecCrc == InitCrc /\ [][NextCrc]_vars

\* The reference: CRC-32 on a register of 32 bits, bit 1 the lowest, one
\* input bit at a time.
RefPolyBits ==
    <<0, 0, 0, 0, 0, 1, 0, 0, 1, 1, 0, 0, 0, 0, 0, 1,
      0, 0, 0, 1, 1, 1, 0, 1, 1, 0, 1, 1, 0, 1, 1, 1>>

\* The register after one round on the register b whose lowest bit is 1:
\* shifted right by one, the polynomial XORed in.
RefRoundOne(b) ==
    <<(b[2] + RefPolyBits[1]) % 2, (b[3] + RefPolyBits[2]) % 2,
      (b[4] + RefPolyBits[3]) % 2, (b[5] + RefPolyBits[4]) % 2,
      (b[6] + RefPolyBits[5]) % 2, (b[7] + RefPolyBits[6]) % 2,
      (b[8] + RefPolyBits[7]) % 2, (b[9] + RefPolyBits[8]) % 2,
      (b[10] + RefPolyBits[9]) % 2, (b[11] + RefPolyBits[10]) % 2,
      (b[12] + RefPolyBits[11]) % 2, (b[13] + RefPolyBits[12]) % 2,
      (b[14] + RefPolyBits[13]) % 2, (b[15] + RefPolyBits[14]) % 2,
      (b[16] + RefPolyBits[15]) % 2, (b[17] + RefPolyBits[16]) % 2,
      (b[18] + RefPolyBits[17]) % 2, (b[19] + RefPolyBits[18]) % 2,
      (b[20] + RefPolyBits[19]) % 2, (b[21] + RefPolyBits[20]) % 2,
      (b[22] + RefPolyBits[21]) % 2, (b[23] + RefPolyBits[22]) % 2,
      (b[24] + RefPolyBits[23]) % 2, (b[25] + RefPolyBits[24]) % 2,
      (b[26] + RefPolyBits[25]) % 2, (b[27] + RefPolyBits[26]) % 2,
      (b[28] + RefPolyBits[27]) % 2, (b[29] + RefPolyBits[28]) % 2,
      (b[30] + RefPolyBits[29]) % 2, (b[31] + RefPolyBits[30]) % 2,
      (b[32] + RefPolyBits[31]) % 2, RefPolyBits[32]>>

\* The register b shifted right by one
RefShift(b) ==
    <<b[2], b[3], b[4], b[5], b[6], b[7], b[8], b[9],
      b[10], b[11], b[12], b[13], b[14], b[15], b[16], b[17],
      b[18], b[19], b[20], b[21], b[22], b[23], b[24], b[25],
      b[26], b[27], b[28], b[29], b[30], b[31], b[32], 0>>

\* One round: shift right, and XOR the polynomial in when a 1 fell out.
RefRound(bits) ==
    IF bits[1] = 1 THEN RefRoundOne(bits) ELSE RefShift(bits)

RECURSIVE RefRounds(_, _)
RefRounds(bits, k) ==
    IF k = 0 THEN bits ELSE RefRounds(RefRound(bits), k - 1)

\* The eight bits of a byte, the lowest first
RefBitsOfByte(byte) ==
    <<byte % 2, (byte \div 2) % 2, (byte \div 4) % 2, (byte \div 8) % 2,
      (byte \div 16) % 2, (byte \div 32) % 2, (byte \div 64) % 2,
      (byte \div 128) % 2>>

\* The register with the bits of a byte added into its low 8 bits
RefFeed(b, low) ==
    <<(b[1] + low[1]) % 2, (b[2] + low[2]) % 2, (b[3] + low[3]) % 2, (b[4] + low[4]) % 2,
      (b[5] + low[5]) % 2, (b[6] + low[6]) % 2, (b[7] + low[7]) % 2, (b[8] + low[8]) % 2,
      b[9], b[10], b[11], b[12],
      b[13], b[14], b[15], b[16],
      b[17], b[18], b[19], b[20],
      b[21], b[22], b[23], b[24],
      b[25], b[26], b[27], b[28],
      b[29], b[30], b[31], b[32]>>

RECURSIVE RefCrcFrom(_, _, _)
RefCrcFrom(bits, buf, i) ==
    IF i > Len(buf) THEN bits
    ELSE RefCrcFrom(RefRounds(RefFeed(bits, RefBitsOfByte(buf[i])), 8),
                    buf, i + 1)

\* The byte of the bits b[lo] (lowest) to b[lo + 7]
RefByte(b, lo) ==
    b[lo] + 2 * b[lo + 1] + 4 * b[lo + 2] + 8 * b[lo + 3] + 16 * b[lo + 4]
        + 32 * b[lo + 5] + 64 * b[lo + 6] + 128 * b[lo + 7]

\* The four bytes of a register, the highest first
RefBytes(b) ==
    <<RefByte(b, 25), RefByte(b, 17), RefByte(b, 9), RefByte(b, 1)>>

RefOnes ==
    <<1, 1, 1, 1, 1, 1, 1, 1, 1, 1, 1, 1, 1, 1, 1, 1,
      1, 1, 1, 1, 1, 1, 1, 1, 1, 1, 1, 1, 1, 1, 1, 1>>

RefZeros24 ==
    <<0, 0, 0, 0, 0, 0, 0, 0, 0, 0, 0, 0, 0, 0, 0, 0, 0, 0, 0, 0, 0, 0, 0, 0>>

\* The final XOR with 0xFFFFFFFF flips every bit of the four bytes.
RefFinal(b) ==
    <<255 - b[1], 255 - b[2], 255 - b[3], 255 - b[4]>>

\* Initial value 0xFFFFFFFF, the bytes in order, the final XOR
RefCrc(buf) ==
    RefFinal(RefBytes(RefCrcFrom(RefOnes, buf, 1)))

RefTableEntry(n) ==
    RefBytes(RefRounds(RefBitsOfByte(n) \o RefZeros24, 8))

\* The four bytes of an int32, the highest first: its value modulo 2^32
BytesOfInt32(x) ==
    <<ByteOf(x, 24), ByteOf(x, 16), ByteOf(x, 8), ByteOf(x, 0)>>

(***************************************************************************)
(* C14.  crc32 is CRC-32: the number a call returns equals, modulo 2^32,   *)
(* the bit-by-bit reflected CRC-32 of the buffer (polynomial 0xEDB88320,   *)
(* initial value and final XOR 0xFFFFFFFF); crc32 of the empty buffer is   *)
(* 0; every entry of the table is 8 shift/XOR rounds of its index.         *)
(***************************************************************************)
CrcIsReference ==
    /\ \A n \in 0 .. 255 : crcTable[n + 1] = RefTableEntry(n)
    /\ (call = "crc32" /\ pc = "done")
          => /\ BytesOfInt32(result.state.n) = RefCrc(uint8)
             /\ uint8 = <<>> => result.state.n = 0

\* crc32 of "a" is 0xE8B7BE43, a negative int32.
CrcIsReferenceWitness ==
    /\ call = "crc32" /\ pc = "done"
    /\ uint8 = <<97>>
    /\ BytesOfInt32(result.state.n) = <<232, 183, 190, 67>>
    /\ RefCrc(uint8) = <<232, 183, 190, 67>>

--------------------------------------------------------------------------
\* The indices of the CRC fields of the chunks of c at the offsets of P
RefCrcIndices(c, P) ==
    UNION {p + 9 + RefLen(c, p) .. p + 12 + RefLen(c, p) : p \in P}

\* c with every byte at an index of I replaced by another byte
RefAltered(c, I) ==
    [i \in 1 .. Len(c) |-> IF i \in I THEN (c[i] + 1) % 256 ELSE c[i]]

\* The streams that differ from c in the CRC field of one chunk, or in the
\* CRC fields of all of its chunks.
RefCrcVariants(c, offsets) ==
    {RefAltered(c, RefCrcIndices(c, {p})) : p \in offsets}
        \cup {RefAltered(c, RefCrcIndices(c, offsets))}

\* The same state, or the same error
SameOutcome(a, b) ==
    a.kind = b.kind /\ a.msg = b.msg /\ a.state = b.state

(***************************************************************************)
(* C15.  CRC fields are not read: readTapeData returns the same state, or  *)
(* throws the same error, on any stream that differs from the one it has   *)
(* read only in the CRC fields of chunks.                                  *)
(***************************************************************************)
CrcIgnored ==
    ReadDone =>
        \A v \in RefCrcVariants(uint8, RefOffsets(uint8, 8)) :
            SameOutcome(result, readTapeData(v))

\* A tape is read, and read again with the CRC field of its sentinel chunk
\* altered.
CrcIgnoredWitness ==
    /\ ReadDone
    /\ result.kind = "state"
    /\ \E p \in RefOffsets(uint8, 8) :
          /\ RefSentinelAt(uint8, p)
          /\ RefAltered(uint8, RefCrcIndices(uint8, {p})) # uint8
          /\ readTapeData(RefAltered(uint8, RefCrcIndices(uint8, {p}))).state
                = result.state

(***************************************************************************)
(* C16.  Extraction is idempotent and nothing is written: when             *)
(* readTapeData has finished on a buffer, reading the same buffer again    *)
(* gives an equal state or the same error; and no step of readTapeData or  *)
(* createTapeBlob changes a byte of the buffer it was given, the payload,  *)
(* or the CRC table.                                                       *)
(***************************************************************************)
ReadAgainEqual ==
    ReadDone =>
        /\ SameOutcome(result, readTapeData(uint8))
        /\ result.kind = "state" => result.bytes = uint8

InputsKept ==
    /\ crcTable' = crcTable
    /\ stateData' = stateData
    /\ call' = call => uint8' = uint8

ReadTwice ==
    [](ReadAgainEqual) /\ [][InputsKept]_vars

\* A tape has been read, and a second reading of the buffer finds the
\* same payload.
ReadTwiceWitness ==
    /\ ReadDone
    /\ result.kind = "state"
    /\ uint8 = PNG_SIGNATURE \o IhdrChunk \o TapeA1 \o IendChunk
    /\ readTapeData(uint8).state = result.state
    /\ Len(crcTable) = 256

--------------------------------------------------------------------------
(***************************************************************************)
(* The tape factory (tools/factory.js): createTapeCard embeds a preset     *)
(* envelope for a character name into a PNG file.                          *)
(***************************************************************************)
\* `The story begins with ${charName}.`
FactoryOpening(charName) ==
    <<84, 104, 101, 32, 115, 116, 111, 114, 121, 32, 98, 101, 103, 105,
         110, 115, 32, 119, 105, 116, 104, 32>>
    \o charName
    \o <<46>>

\* "Static fills the screen, then clears to reveal a strange new world."
FactoryStatic ==
    <<83, 116, 97, 116, 105, 99, 32, 102, 105, 108, 108, 115, 32, 116, 104,
      101, 32, 115, 99, 114, 101, 101, 110, 44, 32, 116, 104, 101, 110, 32,
      99, 108, 101, 97, 114, 115, 32, 116, 111, 32, 114, 101, 118, 101, 97,
      108, 32, 97, 32, 115, 116, 114, 97, 110, 103, 101, 32, 110, 101, 119,
      32, 119, 111, 114, 108, 100, 46>>

\* `${charName} stands at the edge of a void. The tape loop has just begun.`
FactoryNarrative(charName) ==
    charName
    \o <<32, 115, 116, 97, 110, 100, 115, 32, 97, 116, 32, 116, 104, 101,
         32, 101, 100, 103, 101, 32, 111, 102, 32, 97, 32, 118, 111, 105,
         100, 46, 32, 84, 104, 101, 32, 116, 97, 112, 101, 32, 108, 111, 111,
         112, 32, 104, 97, 115, 32, 106, 117, 115, 116, 32, 98, 101, 103,
         117, 110, 46>>

\* `A stop-motion clay figure of ${charName} standing in a surreal, misty
\* void. Cinematic lighting, 8k.`
FactoryPrompt(charName) ==
    <<65, 32, 115, 116, 111, 112, 45, 109, 111, 116, 105, 111, 110, 32,
         99, 108, 97, 121, 32, 102, 105, 103, 117, 114, 101, 32, 111, 102,
         32>>
    \o charName
    \o <<32, 115, 116, 97, 110, 100, 105, 110, 103, 32, 105, 110, 32, 97,
         32, 115, 117, 114, 114, 101, 97, 108, 44, 32, 109, 105, 115, 116,
         121, 32, 118, 111, 105, 100, 46, 32, 67, 105, 110, 101, 109, 97,
         116, 105, 99, 32, 108, 105, 103, 104, 116, 105, 110, 103, 44, 32,
         56, 107, 46>>

\* "FACTORY PRESET LOADED"
FactoryPreset ==
    <<70, 65, 67, 84, 79, 82, 89, 32, 80, 82, 69, 83, 69, 84, 32, 76, 79, 65,
      68, 69, 68>>

FactoryChoices ==
    JArr(<<Choice(<<49>>,
                  <<83, 116, 101, 112, 32, 105, 110, 116, 111, 32, 116,
                    104, 101, 32, 108, 105, 103, 104, 116>>),
           Choice(<<50>>,
                  <<67, 104, 101, 99, 107, 32, 116, 104, 101, 32, 112, 111,
                    99, 107, 101, 116, 115>>),
           Choice(<<51>>,
                  <<89, 101, 108, 108, 32, 105, 110, 116, 111, 32, 116,
                    104, 101, 32, 118, 111, 105, 100>>),
           Choice(<<52>>, <<83, 105, 116, 32, 97, 110, 100, 32, 119, 97, 105, 116>>)>>)

\* tapeData of createTapeCard
FactoryEnvelope(charName) ==
    JObj(<<KeyMeta, KeyEngineState>>,
         <<JObj(<<KeyVersion, KeyCharacterName, KeyCreatedAt>>,
                <<JStr(Version10), JStr(charName), JStr(CreatedAt)>>),
           JObj(<<KeyHistory, KeyCurrentBeat, KeyLoadingStage>>,
                <<JArr(<<JStr(FactoryOpening(charName)), JStr(FactoryStatic)>>),
                  JObj(<<KeyNarrative, KeyVisualPrompt, KeyChoices>>,
                       <<JStr(FactoryNarrative(charName)),
                         JStr(FactoryPrompt(charName)),
                         FactoryChoices>>),
                  JStr(FactoryPreset)>>)>>)

NotAPng == "Error: Input file must be a PNG."

NoIendFound == "Error: Corrupt PNG (No IEND found)."

OutOfRange == "RangeError [ERR_OUT_OF_RANGE]"

\* A faulty writer that puts the lowest byte first.
WriteUInt32LE(x) ==
    <<ByteOf(x, 0), ByteOf(x, 8), ByteOf(x, 16), ByteOf(x, 24)>>

\* buf.writeUInt32BE(x): the four bytes of x, the highest first, for the
\* unsigned x that has the bits of the int32 given.
WriteUInt32BE(x) ==
    <<ByteOf(x, 24), ByteOf(x, 16), ByteOf(x, 8), ByteOf(x, 0)>>

\* The chunk that createChunk builds from the length bytes, the type and
\* data, and the CRC of type and data (crc >>> 0 keeps its bits).
FactoryChunkOf(lenBuffer, chunkData, crc) ==
    lenBuffer \o chunkData \o WriteUInt32BE(crc)

\* createChunk of the factory; its crc32 and CRC_TABLE repeat the code of
\* tapeUtils.ts line by line.
FactoryCreateChunk(type, data) ==
    FactoryChunkOf(WriteUInt32BE(Len(data)), type \o data, crc32(type \o data))

\* Buffer.concat([keyBuffer, nullByte, valBuffer]) wrapped as a tEXt chunk;
\* Buffer.from(text) writes UTF-8.
FactoryTapeChunk(tapeData) ==
    FactoryCreateChunk(textToBytes(TypeTEXT),
                       textToBytes(KEYWORD) \o <<0>> \o StringifyBytes(tapeData))

\* fileBuffer.toString('ascii', pos + 4, pos + 8) for pos = at: the highest
\* bit of each byte is unset, and the text ends where the buffer ends.
FactoryType(fileBuffer, at) ==
    [k \in 1 .. (IF Len(fileBuffer) - (at + 4) >= 4 THEN 4
                 ELSE IF Len(fileBuffer) - (at + 4) > 0
                      THEN Len(fileBuffer) - (at + 4) ELSE 0) |->
        fileBuffer[at + 4 + k] % 128]

\* The while loop of createTapeCard from pos on: iendPos, or -1 when the
\* loop ends without IEND, or -3 when readUInt32BE throws because fewer
\* than four bytes follow pos.  A length whose first byte is 128 or more,
\* or that exceeds the length of the file, puts the next pos past the end.
RECURSIVE FactoryLoop(_, _)
FactoryLoop(fileBuffer, at) ==
    IF ~(at < Len(fileBuffer)) THEN -1
    ELSE IF at + 4 > Len(fileBuffer) THEN -3
    ELSE IF FactoryType(fileBuffer, at) = TypeIEND THEN at
    ELSE IF fileBuffer[at + 1] >= 128 THEN -1
    ELSE IF Int32OfBytes(fileBuffer[at + 1], fileBuffer[at + 2],
                         fileBuffer[at + 3], fileBuffer[at + 4])
                > Len(fileBuffer) THEN -1
    ELSE FactoryLoop(fileBuffer,
                     at + 8 + Int32OfBytes(fileBuffer[at + 1], fileBuffer[at + 2],
                                           fileBuffer[at + 3], fileBuffer[at + 4])
                        + 4)

\* Buffer.concat([part1, newChunk, part2]), or the error that ends the
\* process.
FactoryEnd(fileBuffer, chunk, iend) ==
    IF iend = -3 THEN Thrown(OutOfRange)
    ELSE IF iend = -1 THEN Thrown(NoIendFound)
    ELSE Res("blob", "",
             SubSeq(fileBuffer, 1, iend) \o chunk
                 \o SubSeq(fileBuffer, iend + 1, Len(fileBuffer)),
             JUndef)

\* Buffer.compare(fileBuffer.subarray(0, 8), PNG_SIGNATURE) !== 0
FactorySignatureOk(fileBuffer) ==
    SubSeq(fileBuffer, 1, IF Len(fileBuffer) < 8 THEN Len(fileBuffer) ELSE 8)
        = PNG_SIGNATURE

\* What createTapeCard writes to outputPath for an input file that exists.
createTapeCard(fileBuffer, charName) ==
    IF ~FactorySignatureOk(fileBuffer) THEN Thrown(NotAPng)
    ELSE FactoryEnd(fileBuffer, FactoryTapeChunk(FactoryEnvelope(charName)),
                    FactoryLoop(fileBuffer, 8))

\* A chunk whose type reads IEND once the highest bit of its first byte is
\* unset
MaskedIendChunk ==
    FactoryCreateChunk(<<201, 69, 78, 68>>, <<>>)

FactoryCarriers ==
    Files(EmbedMids \cup {MaskedIendChunk}, EmbedTails) \cup NotPngFiles
        \cup {PNG_SIGNATURE}

\* Al, and a"<e-acute>
CharNames == {<<65, 108>>, <<97, 34, 233>>}

InitFactory ==
    /\ RoomIdle
    /\ LobbyStart(1)
    /\ crcTable = TableFrom(0, 256)
    /\ call = "createTapeCard"
    /\ pc = "call"
    /\ uint8 \in FactoryCarriers
    /\ stateData \in {JStr(n) : n \in CharNames}
    /\ newChunk = <<>>
    /\ pos = 8
    /\ iendPos = -1
    /\ foundData = JNull
    /\ result = Pending
    /\ visited = {}
    /\ logged = 0
    /\ carrier = uint8
    /\ blob = Pending

\* node tools/factory.js <input.png> <characterName> <output.png>
CreateTapeCard ==
    /\ call = "createTapeCard" /\ pc = "call"
    /\ result' = createTapeCard(uint8, stateData.s)
    /\ blob' = result'
    /\ newChunk' = (IF FactorySignatureOk(uint8)
                    THEN FactoryTapeChunk(FactoryEnvelope(stateData.s))
                    ELSE newChunk)
    /\ iendPos' = (IF FactorySignatureOk(uint8) /\ FactoryLoop(uint8, 8) >= 0
                   THEN FactoryLoop(uint8, 8) ELSE iendPos)
    /\ pc' = "done"
    /\ UNCHANGED <<crcTable, call, uint8, stateData, pos, foundData, visited,
                   logged, carrier, tvVars, lobbyVars>>

\* The file the factory wrote is dropped onto the application.
FactoryReadBack ==
    /\ call = "createTapeCard" /\ pc = "done" /\ result.kind = "blob"
    /\ call' = "readTapeData"
    /\ pc' = "signature"
    /\ uint8' = result.bytes
    /\ pos' = 8
    /\ foundData' = JNull
    /\ visited' = {}
    /\ result' = Pending
    /\ UNCHANGED <<crcTable, stateData, newChunk, iendPos, logged, carrier,
                   blob, tvVars, lobbyVars>>

NextFactory ==
    \/ CreateTapeCard
    \/ FactoryReadBack
    \/ ReadTapeDataCheck
    \/ ReadTapeDataScan
    \/ ReadTapeDataFinish

SpecFactory == InitFactory /\ [][NextFactory]_vars

\* Every chunk type of the chain of c is made of ASCII letters, as the PNG
\* format has it.
RefLetterTypes(c) ==
    \A p \in RefOffsets(c, 8) :
        \A k \in 5 .. 8 :
            \/ c[p + k] \in 65 .. 90
            \/ c[p + k] \in 97 .. 122

(***************************************************************************)
(* C17.  The factory and createTapeBlob embed alike: on a well-formed      *)
(* carrier the factory's chunk is the tEXt chunk createTapeBlob builds for *)
(* the factory's envelope, it is inserted at the same offset, the output   *)
(* is byte for byte what createTapeBlob returns, and readTapeData reads    *)
(* the factory's envelope from it.                                         *)
(***************************************************************************)
FactorySameEmbed ==
    (RefWellFormed(carrier) /\ RefLetterTypes(carrier)) =>
        /\ (call = "createTapeCard" /\ pc = "done")
              => /\ newChunk = TapeChunk(FactoryEnvelope(stateData.s))
                 /\ iendPos = RefIend(carrier, 8)
                 /\ result.kind = "blob"
                 /\ result.bytes
                       = createTapeBlob(carrier,
                                        FactoryEnvelope(stateData.s)).bytes
        /\ ReadDone
              => /\ result.kind = "state"
                 /\ DeepEqual(result.state, FactoryEnvelope(stateData.s))

\* The file the factory made from a carrier that already held a tape has
\* been read, and the envelope for a"<e-acute> came out.
FactorySameEmbedWitness ==
    /\ ReadDone
    /\ carrier = PNG_SIGNATURE \o IhdrChunk \o TapeA1 \o IdatChunk \o IendChunk
    /\ stateData.s = <<97, 34, 233>>
    /\ result.kind = "state"
    /\ Get(Get(result.state, KeyMeta), KeyCharacterName) = stateData
    /\ blob.bytes = createTapeBlob(carrier, FactoryEnvelope(stateData.s)).bytes

(***************************************************************************)
(* C18.  A loaded tape is left alone: when a tape dropped onto the room    *)
(* has finished loading while a runLoop started before the drop still      *)
(* waits for generation, the end of that runLoop, by success or by         *)
(* failure, changes neither history nor currentBeat.                       *)
(***************************************************************************)
\* The last state update was the one of onloadend, and a runLoop waits.
LoadedUnderLoop ==
    /\ Live
    /\ gameState.loadingStage = Stage("TAPE LOADED - READY")
    /\ loops # <<>>

LoopEndKeepsTape ==
    (LoadedUnderLoop /\ Len(loops') < Len(loops))
        => /\ gameState'.history = gameState.history
           /\ gameState'.currentBeat = gameState.currentBeat

LoadedTapeKept ==
    [][LoopEndKeepsTape]_vars

\* START PROGRAM and one drop were all the viewer did; the legacy tape
\* (history ["a"]) was loaded, and then the runLoop of the start revealed
\* its beat and appended its narrative.
LoadedTapeKeptWitness ==
    /\ Live
    /\ events = 2
    /\ loops = <<>> /\ drops = <<>>
    /\ gameState.loadingStage = Stage("PLAYBACK")
    /\ gameState.history = JArr(<<JStr(<<97>>), JStr(<<97>>)>>)

(***************************************************************************)
(* C19.  One runLoop at a time: between the first state update of a        *)
(* runLoop and its last, no start, choice or drop starts a second one, so  *)
(* at most one runLoop waits for generation in any state.                  *)
(***************************************************************************)
OneLoopInFlight ==
    Len(loops) <= 1

\* The runLoop of the start still waits for its video when the runLoop of
\* a choice of the tape dropped meanwhile waits for its story.
OneLoopInFlightWitness ==
    /\ Live
    /\ Len(loops) = 2
    /\ loops[1].pc = "video"
    /\ loops[2].pc = "story"
    /\ drops = <<>>
    /\ gameState.isLoading
    /\ gameState.loadingStage = Stage("WRITING SCRIPT...")

--------------------------------------------------------------------------
\* The TV room with the promises of a drop settling.  readTapeData ends
\* for every file of the room (NoReadHangs), so the promise of each read
\* settles: no drop waits at its read for ever, which is what weak
\* fairness of DropRead comes to.  A FileReader that was started ends: the
\* step of DropLoadEnd(i), told by what it does to the drops in flight,
\* is taken when it stays possible.
NoReadHangs ==
    \A i \in 1 .. Len(drops) :
       readTapeData(drops[i].file.bytes).kind # "never"

ReadsSettled ==
    \A i \in 1 .. Len(drops) : drops[i].pc # "read"

LoadEnds ==
    \E i \in 1 .. Len(drops) :
       /\ Live /\ drops[i].pc = "load"
       /\ drops' = Remove(drops, i)

SpecTVLive ==
    /\ InitTV
    /\ [][NextTV]_vars
    /\ []<>ReadsSettled
    /\ WF_drops(LoadEnds)

(***************************************************************************)
(* C20.  A drop settles: once a PNG dropped onto the room has put it into  *)
(* 'READING TAPE...', a state follows in which isLoading is false and      *)
(* loadingStage is 'TAPE LOADED - READY' or 'READ ERROR', whatever the     *)
(* file holds.                                                             *)
(***************************************************************************)
ReadingTape ==
    Live /\ gameState.isLoading /\ gameState.loadingStage = Stage("READING TAPE...")

TapeSettled ==
    /\ ~gameState.isLoading
    /\ gameState.loadingStage
          \in {Stage("TAPE LOADED - READY"), Stage("READ ERROR")}

DropSettles ==
    ReadingTape ~> TapeSettled

\* The room is stuck: it shows 'READING TAPE...', and neither a drop nor a
\* runLoop is left that could end the loading.
DropSettlesWitness ==
    /\ ReadingTape
    /\ drops = <<>>
    /\ loops = <<>>
    /\ events = 1

--------------------------------------------------------------------------
\* The TV room during its first clicks and drops: the loops of runLoop
\* are followed from the start of the session.
MaxLoopEvents == 2

NextLoop ==
    NextTV /\ events' <= MaxLoopEvents

SpecLoop == InitTV /\ [][NextLoop]_vars

(***************************************************************************)
(* C21.  The reveal is one update: no state update of a runLoop before its *)
(* last changes currentBeat or history, and the last one, when the loop    *)
(* succeeds, sets the new currentBeat, the new videoUrl, the history with  *)
(* the narrative of the new beat appended and isLoading false together.    *)
(***************************************************************************)
\* A runLoop made a state update that is not its last: it started, or its
\* story arrived.  No other step of the room changes loops.
LoopGoesOn ==
    loops' # loops /\ Len(loops') >= Len(loops)

\* The last update of runLoop i was the reveal of the beat it generated.
RevealedBy(i) ==
    /\ loops' = Remove(loops, i)
    /\ gameState'.currentBeat = loops[i].nextBeat
    /\ gameState'.videoUrl \in {JStr(ClipUrl), JNull}
    /\ gameState.history.t = "arr"
    /\ gameState'.history =
          JArr(Append(gameState.history.kids,
                      Get(loops[i].nextBeat, KeyNarrative)))
    /\ ~gameState'.isLoading

RevealIsOneUpdate ==
    /\ LoopGoesOn =>
         /\ gameState'.currentBeat = gameState.currentBeat
         /\ gameState'.history = gameState.history
    /\ Len(loops') < Len(loops) =>
         \/ /\ gameState'.currentBeat = gameState.currentBeat
            /\ gameState'.history = gameState.history
            /\ gameState'.videoUrl = gameState.videoUrl
         \/ \E i \in 1 .. Len(loops) : RevealedBy(i)

RevealAtOnce ==
    [][RevealIsOneUpdate]_vars

\* A runLoop has revealed its beat with its video: the beat, the clip and
\* the appended narrative are there, and nothing waits.
RevealAtOnceWitness ==
    /\ Live
    /\ loops = <<>> /\ drops = <<>>
    /\ ~gameState.isLoading
    /\ gameState.loadingStage = Stage("PLAYBACK")
    /\ gameState.videoUrl = JStr(ClipUrl)
    /\ Truthy(gameState.currentBeat)
    /\ gameState.history = JArr(<<Get(gameState.currentBeat, KeyNarrative)>>)

--------------------------------------------------------------------------
(***************************************************************************)
(* The App of App.tsx: one page that holds the session, with the runLoop   *)
(* of lines 38-91 behind its INSERT TAPE button and its choice buttons.    *)
(***************************************************************************)
\* useState initial values, lines 32-35
InitApp ==
    /\ CodecIdle
    /\ LobbyStart(1)
    /\ page = "app"
    /\ gameState = INITIAL_STATE
    /\ isStarted = FALSE
    /\ settings = DEFAULT_SETTINGS
    /\ locationState = NoLocation
    /\ initEffect = "done"
    /\ loops = <<>>
    /\ drops = <<>>
    /\ files = {}
    /\ alerted = ""
    /\ crashed = FALSE
    /\ completed = NoFile
    /\ events = 0

\* The App is shown and has not crashed
AppLive == page = "app" /\ ~crashed

\* runLoop(choiceText) up to its first await, lines 38-57.  The loop keeps
\* the gameState of the render that called it.
AppRunLoop(choiceText, frame) ==
    IF gameState.isLoading THEN UNCHANGED <<gameState, loops>>
    ELSE \E capturedFrame \in
               {IF Truthy(choiceText) /\ Truthy(frame)
                THEN frame ELSE gameState.lastFrameBase64} :
            /\ gameState' = [gameState EXCEPT
                               !.isLoading = TRUE,
                               !.lastFrameBase64 = capturedFrame,
                               !.loadingStage = Stage("WRITING SCRIPT...")]
            /\ loops' = Append(loops,
                               [pc |-> "story",
                                gameState |-> gameState,
                                nextBeat |-> JUndef])

\* handleStart, lines 93-96, of the button shown while
\* !isStarted && !gameState.isLoading
AppHandleStart ==
    /\ AppLive /\ ~isStarted /\ ~gameState.isLoading
    /\ Event
    /\ isStarted' = TRUE
    /\ AppRunLoop(JNull, JNull)
    /\ Quiet
    /\ UNCHANGED <<codecVars, lobbyVars, page, settings, locationState,
                   initEffect, drops, files, crashed>>

\* handleChoice, lines 98-103, of a choice button, enabled while
\* !(gameState.isLoading || !isStarted)
AppHandleChoice ==
    /\ AppLive /\ isStarted /\ ~gameState.isLoading
    /\ Event
    /\ \E k \in 1 .. Len(ChoicesShown) :
         \E frame \in CaptureResults(gameState) :
            AppRunLoop(Get(FindChoice(ChoicesShown, Get(ChoicesShown[k], KeyId)), KeyText),
                       frame)
    /\ Quiet
    /\ UNCHANGED <<codecVars, lobbyVars, page, isStarted, settings,
                   locationState, initEffect, drops, files, crashed>>

\* generateStoryBeat resolves, lines 59-71: the beat is shown and its
\* narrative appended before the video is asked for.
AppStoryResolves(i) ==
    /\ AppLive /\ loops[i].pc = "story"
    /\ \E beat \in StoryBeats :
         /\ loops' = [loops EXCEPT ![i].pc = "video", ![i].nextBeat = beat]
         /\ IF gameState.history.t = "arr"
            THEN /\ gameState' = [gameState EXCEPT
                                    !.currentBeat = beat,
                                    !.loadingStage = Stage("FILMING SCENE (VEO)..."),
                                    !.history =
                                       JArr(Append(gameState.history.kids,
                                                   Get(beat, KeyNarrative)))]
                 /\ UNCHANGED crashed
            ELSE /\ crashed' = TRUE
                 /\ UNCHANGED gameState
    /\ Quiet
    /\ UNCHANGED <<codecVars, lobbyVars, events, page, isStarted, settings,
                   locationState, initEffect, drops, files>>

\* The catch clause of runLoop, lines 82-90
AppLoopCatch(i) ==
    /\ gameState' = [gameState EXCEPT
                       !.isLoading = FALSE,
                       !.loadingStage = Stage("ERROR - RETRY")]
    /\ loops' = Remove(loops, i)
    /\ alerted' = "Transmission interrupted. Please check your API Key or try again."
    /\ completed' = NoFile
    /\ UNCHANGED <<codecVars, lobbyVars, events, page, isStarted, settings,
                   locationState, initEffect, drops, files, crashed>>

\* generateStoryBeat rejects
AppStoryRejects(i) ==
    /\ AppLive /\ loops[i].pc = "story"
    /\ AppLoopCatch(i)

\* generateVideoClip resolves, lines 73-81
AppVideoResolves(i) ==
    /\ AppLive /\ loops[i].pc = "video"
    /\ gameState' = [gameState EXCEPT
                       !.videoUrl = JStr(ClipUrl),
                       !.isLoading = FALSE,
                       !.loadingStage = Stage("PLAYBACK")]
    /\ loops' = Remove(loops, i)
    /\ Quiet
    /\ UNCHANGED <<codecVars, lobbyVars, events, page, isStarted, settings,
                   locationState, initEffect, drops, files, crashed>>

\* generateVideoClip rejects
AppVideoRejects(i) ==
    /\ AppLive /\ loops[i].pc = "video"
    /\ AppLoopCatch(i)

NextApp ==
    \/ AppHandleStart
    \/ AppHandleChoice
    \/ \E i \in 1 .. Len(loops) : AppStoryResolves(i)
    \/ \E i \in 1 .. Len(loops) : AppStoryRejects(i)
    \/ \E i \in 1 .. Len(loops) : AppVideoResolves(i)
    \/ \E i \in 1 .. Len(loops) : AppVideoRejects(i)

SpecApp == InitApp /\ [][NextApp]_vars

(***************************************************************************)
(* C22.  A failed loop leaves the session as it was: when story or video   *)
(* generation throws inside runLoop (VIDEO_GEN_UNSUPPORTED_PROVIDER        *)
(* apart), runLoop ends with isLoading false, a loadingStage that begins   *)
(* with 'ERR', and the history and currentBeat the session had when the    *)
(* loop started.                                                           *)
(***************************************************************************)
\* The loadingStage values of the catch clauses: all begin with 'ERR'.
ErrStages ==
    {Stage("ERR: QUOTA EXCEEDED (WAITING)"),
     Stage("ERR: MODEL INCOMPATIBLE (405)"),
     Stage("ERR: ..."),
     Stage("ERROR - RETRY")}

\* The statuses with which a runLoop ends when nothing was thrown, or
\* VIDEO_GEN_UNSUPPORTED_PROVIDER only.
DoneStages ==
    {Stage("PLAYBACK"), Stage("TEXT-ONLY MODE (OPENROUTER)")}

\* runLoop i ended in this step, and not by its last update of success.
LoopFailed(i) ==
    /\ i \in 1 .. Len(loops)
    /\ loops' = Remove(loops, i)
    /\ ~crashed'
    /\ gameState'.loadingStage \notin DoneStages

\* App.tsx: the session a failed loop leaves is the one it started from.
AppFailureKeeps ==
    \A i \in 1 .. Len(loops) :
       LoopFailed(i) =>
          /\ ~gameState'.isLoading
          /\ gameState'.loadingStage \in ErrStages
          /\ gameState'.history = loops[i].gameState.history
          /\ gameState'.currentBeat = loops[i].gameState.currentBeat

FailureKeepsSession ==
    [][AppFailureKeeps]_vars

\* The first loop of the App got its story and failed on its video: the
\* narrative of the beat that was never filmed is in the history.
FailureKeepsSessionWitness ==
    /\ AppLive
    /\ events = 1
    /\ loops = <<>>
    /\ ~gameState.isLoading
    /\ gameState.loadingStage = Stage("ERROR - RETRY")
    /\ gameState.currentBeat = BeatA
    /\ gameState.history = JArr(<<JStr(<<97>>)>>)

\* TVRoom.tsx: the catch clause changes isLoading and loadingStage only,
\* and no earlier update of the loop has touched history or currentBeat
\* (RevealAtOnce).
RoomFailureKeeps ==
    \A i \in 1 .. Len(loops) :
       LoopFailed(i) =>
          /\ ~gameState'.isLoading
          /\ gameState'.loadingStage \in ErrStages
          /\ gameState'.history = gameState.history
          /\ gameState'.currentBeat = gameState.currentBeat

FailureKeepsRoom ==
    [][RoomFailureKeeps]_vars

--------------------------------------------------------------------------
(***************************************************************************)
(* generateVideoClip (services/geminiService.ts, lines 281-354): Fal.ai    *)
(* when a Fal key is set, else the OpenRouter attempt for a key that       *)
(* starts with 'sk-or-', else Veo.  An outcome is the URL the promise      *)
(* resolves with or the message of the Error it rejects with.              *)
(***************************************************************************)
\* "message"
KeyMessage == <<109, 101, 115, 115, 97, 103, 101>>

\* "content"
KeyContent == <<99, 111, 110, 116, 101, 110, 116>>

\* "sk-or-"
SkOr == <<115, 107, 45, 111, 114, 45>>

\* "http://"
Http == <<104, 116, 116, 112, 58, 47, 47>>

\* "https://"
Https == <<104, 116, 116, 112, 115, 58, 47, 47>>

\* ".mp4"
DotMp4 == <<46, 109, 112, 52>>

\* "sk-or-v1"
OpenRouterKey == <<115, 107, 45, 111, 114, 45, 118, 49>>

\* "AIza"
GoogleKey == <<65, 73, 122, 97>>

\* "fal"
FalKey == <<102, 97, 108>>

\* "https://v.io/a.mp4"
Mp4Url ==
    <<104, 116, 116, 112, 115, 58, 47, 47, 118, 46, 105, 111, 47, 97, 46, 109,
      112, 52>>

\* "clip: https://v.io/a.mp4 (ready)"
Mp4Reply ==
    <<99, 108, 105, 112, 58, 32, 104, 116, 116, 112, 115, 58, 47, 47, 118, 46,
      105, 111, 47, 97, 46, 109, 112, 52, 32, 40, 114, 101, 97, 100, 121, 41>>

\* "A short clip of a door."
TextReply ==
    <<65, 32, 115, 104, 111, 114, 116, 32, 99, 108, 105, 112, 32, 111, 102,
      32, 97, 32, 100, 111, 111, 114, 46>>

Resolved(url) == [kind |-> "url", url |-> url, message |-> ""]

Rejected(message) == [kind |-> "throws", url |-> <<>>, message |-> message]

StartsAt(s, i, p) ==
    /\ i + Len(p) - 1 <= Len(s)
    /\ SubSeq(s, i, i + Len(p) - 1) = p

\* s.startsWith(prefix)
StartsWith(s, prefix) == StartsAt(s, 1, prefix)

\* \s among the ASCII characters
IsSpace(c) == c \in {9, 10, 11, 12, 13, 32}

\* s.trim()
TrimStart(s) ==
    IF \A i \in 1 .. Len(s) : IsSpace(s[i]) THEN <<>>
    ELSE SubSeq(s, CHOOSE i \in 1 .. Len(s) :
                      /\ ~IsSpace(s[i])
                      /\ \A j \in 1 .. i - 1 : IsSpace(s[j]),
                Len(s))

TrimEnd(s) ==
    IF \A i \in 1 .. Len(s) : IsSpace(s[i]) THEN <<>>
    ELSE SubSeq(s, 1, CHOOSE i \in 1 .. Len(s) :
                         /\ ~IsSpace(s[i])
                         /\ \A j \in i + 1 .. Len(s) : IsSpace(s[j]))

Trim(s) == TrimEnd(TrimStart(s))

\* The index after https?:\/\/ matched at i, 0 if it does not match there
AfterScheme(s, i) ==
    IF StartsAt(s, i, Http) THEN i + Len(Http)
    ELSE IF StartsAt(s, i, Https) THEN i + Len(Https)
    ELSE 0

\* The indices at which [^\s"']+\.mp4 can end when it starts at b
Mp4Ends(s, b) ==
    {e \in b + 4 .. Len(s) :
        /\ SubSeq(s, e - 3, e) = DotMp4
        /\ \A k \in b .. e : ~IsSpace(s[k]) /\ s[k] \notin {34, 39}}

\* The indices at which /https?:\/\/[^\s"']+\.mp4/ matches
Mp4Starts(s) ==
    {i \in 1 .. Len(s) :
        AfterScheme(s, i) # 0 /\ Mp4Ends(s, AfterScheme(s, i)) # {}}

Least(S) == CHOOSE x \in S : \A y \in S : x <= y

Greatest(S) == CHOOSE x \in S : \A y \in S : y <= x

\* The match from i: the plus is greedy
Mp4From(s, i) ==
    SubSeq(s, i, Greatest(Mp4Ends(s, AfterScheme(s, i))))

\* content.match(/https?:\/\/[^\s"']+\.mp4/)?.[0] for a string: the
\* leftmost match, undefined without one.
MatchMp4(s) ==
    IF Mp4Starts(s) = {} THEN JUndef
    ELSE JStr(Mp4From(s, Least(Mp4Starts(s))))

\* v[0]
First(v) ==
    IF v.t = "arr" THEN (IF Len(v.kids) >= 1 THEN v.kids[1] ELSE JUndef)
    ELSE IF v.t = "str" THEN (IF Len(v.s) >= 1 THEN JStr(<<v.s[1]>>) ELSE JUndef)
    ELSE Get(v, <<48>>)

\* What fetch and response.json() gave: the fetch rejected, or resolved
\* with a response that is ok or not and whose body parses to data or not.
FetchRejected == [kind |-> "rejects", ok |-> FALSE, parses |-> FALSE, data |-> JUndef]

Response(ok, parses, data) ==
    [kind |-> "response", ok |-> ok, parses |-> parses, data |-> data]

\* {"choices":[{"message":{"content":content}}]}
Completion(content) ==
    JObj(<<KeyChoices>>,
         <<JArr(<<JObj(<<KeyMessage>>,
                       <<JObj(<<KeyContent>>, <<content>>)>>)>>)>>)

\* Lines 337-349, for the content of the first choice
OpenRouterContent(content) ==
    IF content.t \in {"undefined", "null"}
    THEN Rejected("VIDEO_GEN_UNSUPPORTED_PROVIDER")
    ELSE IF content.t # "str"
    THEN Rejected("content.match is not a function")
    ELSE IF Truthy(MatchMp4(content.s)) THEN Resolved(MatchMp4(content.s).s)
    ELSE Rejected("VIDEO_GEN_UNSUPPORTED_PROVIDER")

\* Lines 327-349, for the data response.json() resolved with
OpenRouterData(data) ==
    IF \/ ~Truthy(data)
       \/ ~Truthy(Get(data, KeyChoices))
       \/ ~Truthy(First(Get(data, KeyChoices)))
    THEN Rejected("VIDEO_GEN_UNSUPPORTED_PROVIDER")
    ELSE OpenRouterContent(
             OptGet(Get(First(Get(data, KeyChoices)), KeyMessage), KeyContent))

\* The try block of the OpenRouter attempt, lines 306-349
OpenRouterTry(fetched) ==
    IF fetched.kind = "rejects" THEN Rejected("Failed to fetch")
    ELSE IF ~fetched.ok THEN Rejected("OpenRouter Video Request Failed")
    ELSE IF ~fetched.parses THEN Rejected("Unexpected end of JSON input")
    ELSE OpenRouterData(fetched.data)

\* A catch clause that throws again what it caught
OpenRouterRethrow(outcome) ==
    outcome

\* The catch clause of the OpenRouter attempt, lines 350-354
OpenRouterCatch(outcome) ==
    IF outcome.kind = "throws" /\ outcome.message # "VIDEO_GEN_UNSUPPORTED_PROVIDER"
    THEN Rejected("VIDEO_GEN_UNSUPPORTED_PROVIDER")
    ELSE outcome

\* settings.falKey && settings.falKey.trim() !== ''
HasFalKey(falKey) ==
    Truthy(falKey) /\ Trim(falKey.s) # <<>>

\* generateVideoClip for the key getApiKey resolved with, the falKey of the
\* settings, what the OpenRouter endpoint gave and what the Fal.ai or Veo
\* client ended with.
generateVideoClip(apiKey, falKey, fetched, served) ==
    IF HasFalKey(falKey) THEN served
    ELSE IF StartsWith(apiKey, SkOr) THEN OpenRouterCatch(OpenRouterTry(fetched))
    ELSE served

\* The keys of a viewer, and the falKey of the stored settings
ApiKeys == {OpenRouterKey, GoogleKey}

FalKeys == {JUndef, JStr(<<>>), JStr(<<32>>), JStr(FalKey)}

\* What the OpenRouter endpoint may answer
Fetches ==
    {FetchRejected,
     Response(FALSE, TRUE, JObj(<<>>, <<>>)),
     Response(TRUE, FALSE, JUndef),
     Response(TRUE, TRUE, JNull),
     Response(TRUE, TRUE, JNum(5)),
     Response(TRUE, TRUE, JObj(<<>>, <<>>)),
     Response(TRUE, TRUE, JObj(<<KeyChoices>>, <<JArr(<<>>)>>)),
     Response(TRUE, TRUE, JObj(<<KeyChoices>>, <<JArr(<<JNull>>)>>)),
     Response(TRUE, TRUE, JObj(<<KeyChoices>>, <<JArr(<<JObj(<<>>, <<>>)>>)>>)),
     Response(TRUE, TRUE, Completion(JNull)),
     Response(TRUE, TRUE, Completion(JNum(5))),
     Response(TRUE, TRUE, Completion(JArr(<<JStr(TextReply)>>))),
     Response(TRUE, TRUE, Completion(JStr(TextReply))),
     Response(TRUE, TRUE, Completion(JStr(Mp4Reply)))}

\* How the Fal.ai or the Veo client may end
Served ==
    {Resolved(ClipUrl)} \cup {Rejected(error) : error \in LoopErrors}

\* generateVideoClip has read the key and the settings, lines 287-288,
\* and asks the provider they select.
VideoAsked(i) ==
    /\ Live /\ loops[i].pc = "video"
    /\ \E apiKey \in ApiKeys, falKey \in FalKeys :
         loops' = [loops EXCEPT
                     ![i] = [pc |-> "clip",
                             visualStyle |-> loops[i].visualStyle,
                             nextBeat |-> loops[i].nextBeat,
                             apiKey |-> apiKey,
                             falKey |-> falKey]]
    /\ Quiet
    /\ UNCHANGED <<codecVars, lobbyVars, events, page, gameState, isStarted,
                   settings, locationState, initEffect, drops, files, crashed>>

\* Lines 127-153 and 155-178 of runLoop for what generateVideoClip
\* settled with.
VideoSettled(i, outcome) ==
    IF outcome.kind = "url" THEN Reveal(i, JStr(outcome.url), "PLAYBACK")
    ELSE IF outcome.message = "VIDEO_GEN_UNSUPPORTED_PROVIDER"
    THEN Reveal(i, JNull, "TEXT-ONLY MODE (OPENROUTER)")
    ELSE LoopCatch(i, outcome.message)

\* generateVideoClip settles
VideoSettles(i) ==
    /\ Live /\ loops[i].pc = "clip"
    /\ \E fetched \in Fetches, served \in Served :
         VideoSettled(i, generateVideoClip(loops[i].apiKey, loops[i].falKey,
                                           fetched, served))

\* The TV room with the providers of generateVideoClip
NextVideo ==
    \/ PlayNew
    \/ PlayTape
    \/ LoadSettings
    \/ HandleStart
    \/ HandleChoice
    \/ \E i \in 1 .. Len(loops) : StoryResolves(i)
    \/ \E i \in 1 .. Len(loops) : StoryRejects(i)
    \/ \E i \in 1 .. Len(loops) : VideoAsked(i)
    \/ \E i \in 1 .. Len(loops) : VideoSettles(i)

SpecVideo == InitTV /\ [][NextVideo]_vars

(***************************************************************************)
(* C23.  OpenRouter without video is no error: with a key that starts with *)
(* 'sk-or-' and no Fal key, whatever fails in the OpenRouter video attempt *)
(* reaches runLoop as VIDEO_GEN_UNSUPPORTED_PROVIDER, and runLoop ends as  *)
(* on success: the beat is revealed, its narrative appended to history,    *)
(* videoUrl null, loadingStage 'TEXT-ONLY MODE (OPENROUTER)', isLoading    *)
(* false.  The video step never ends in a loadingStage that begins with    *)
(* 'ERR'.                                                                  *)
(***************************************************************************)
\* runLoop i waits for the OpenRouter attempt
AsksOpenRouter(i) ==
    /\ loops[i].pc = "clip"
    /\ StartsWith(loops[i].apiKey, SkOr)
    /\ ~HasFalKey(loops[i].falKey)

\* The attempt of runLoop i ended in this step, and the updater of the
\* reveal did not throw on a history that is no array.
OpenRouterEnded(i) ==
    /\ AsksOpenRouter(i)
    /\ loops' = Remove(loops, i)
    /\ ~crashed'

\* The attempt gave a URL, or it failed in any of its ways
OpenRouterGave ==
    {OpenRouterTry(fetched) : fetched \in Fetches}

OpenRouterReveals ==
    \A i \in 1 .. Len(loops) :
       OpenRouterEnded(i) =>
          /\ ~gameState'.isLoading
          /\ gameState'.currentBeat = loops[i].nextBeat
          /\ gameState.history.t = "arr"
          /\ gameState'.history =
                JArr(Append(gameState.history.kids,
                            Get(loops[i].nextBeat, KeyNarrative)))
          /\ \/ /\ gameState'.loadingStage = Stage("TEXT-ONLY MODE (OPENROUTER)")
                /\ gameState'.videoUrl = JNull
             \/ /\ gameState'.loadingStage = Stage("PLAYBACK")
                /\ gameState'.videoUrl = JStr(Mp4Url)
          /\ gameState'.loadingStage \notin ErrStages

OpenRouterFailsSoft ==
    /\ [][OpenRouterReveals]_vars
    /\ [](\A outcome \in OpenRouterGave :
            outcome.kind = "throws" =>
               OpenRouterCatch(outcome) = Rejected("VIDEO_GEN_UNSUPPORTED_PROVIDER"))

\* The first loop of a fresh session ended in text-only mode.
OpenRouterFailsSoftWitness ==
    /\ Live
    /\ events = 1
    /\ loops = <<>>
    /\ ~gameState.isLoading
    /\ gameState.loadingStage = Stage("TEXT-ONLY MODE (OPENROUTER)")
    /\ gameState.videoUrl = JNull
    /\ gameState.currentBeat = BeatA
    /\ gameState.history = JArr(<<JStr(<<97>>)>>)

--------------------------------------------------------------------------
(***************************************************************************)
(* C24.  The newest payload is read back: when the carrier holds a         *)
(* sentinel chunk with a payload q already, readTapeData on the output of  *)
(* createTapeBlob(carrier, p) returns p, for every object p, and not q.    *)
(***************************************************************************)
\* createTapeBlob embedded an object or an array into a well-formed
\* carrier that had a sentinel chunk, and readTapeData has read the blob.
ReembeddedRead ==
    /\ ReadDone /\ blob.kind = "blob"
    /\ RefWellFormed(carrier)
    /\ RefSentinels(carrier) # {}
    /\ IsObject(stateData)

NewestPayloadRead ==
    ReembeddedRead =>
       /\ result.kind = "state"
       /\ DeepEqual(result.state, stateData)
       /\ \A p \in RefSentinels(carrier) :
             (RefPayload(carrier, p).ok
                  /\ ~DeepEqual(RefPayload(carrier, p).v, stateData))
               => ~DeepEqual(result.state, RefPayload(carrier, p).v)

\* The carrier held {"a":1}, {"b":2} was embedded, and {"b":2} was read.
NewestPayloadReadWitness ==
    /\ ReembeddedRead
    /\ stateData = ValueB2
    /\ \E p \in RefSentinels(carrier) :
          /\ RefPayload(carrier, p).ok
          /\ ~DeepEqual(RefPayload(carrier, p).v, ValueB2)
    /\ result.kind = "state"
    /\ result.state = ValueB2


(***************************************************************************)
(* The library of storageService.ts.  Each call reads the stored list,     *)
(* changes its own copy and writes the copy back; get and set are two      *)
(* separate requests to the browser, and a call waits for each.            *)
(***************************************************************************)
MaxTapeId == 3    \* the ids a caller of storageService may name
MaxCalls == 3     \* the drops and erase clicks the lobby handles

TapeIds == 1 .. MaxTapeId

TapeNames == {"Unknown", "Viewer Agent"}

\* A tape as stored: its id and its characterName (timestamp, imgBase64 and
\* data are carried along with them and are left out)
ShelfTape(id, characterName) == [id |-> id, characterName |-> characterName]

ShelfTapes == {ShelfTape(id, name) : id \in TapeIds, name \in TapeNames}

\* library.findIndex((t) => t.id === tape.id), 0 for the first entry
FindIndex(lib, id) ==
    IF \E k \in 1 .. Len(lib) : lib[k].id = id
    THEN Least({k \in 1 .. Len(lib) : lib[k].id = id}) - 1
    ELSE -1

\* A save that puts every tape at the front
SaveAtFront(lib, tape) == <<tape>> \o lib

\* saveTapeToLibrary between its get and its set
SaveInto(lib, tape) ==
    IF FindIndex(lib, tape.id) >= 0
    THEN [lib EXCEPT ![FindIndex(lib, tape.id) + 1] = tape]
    ELSE <<tape>> \o lib

\* library.filter((t) => t.id !== id)
FilterOut(lib, id) == SelectSeq(lib, LAMBDA t : t.id # id)

\* A call of storageService that waits; byLobby: a handler of the lobby
\* awaits it and updates the library shown when it resolves.
StoreCall(op, tape, awaits, lib, byLobby) ==
    [op |-> op, tape |-> tape, pc |-> awaits, library |-> lib,
     byLobby |-> byLobby]

\* saveTapeToLibrary(tape) up to await get(LIBRARY_KEY)
saveTapeToLibrary(tape, byLobby) ==
    calls' = Append(calls, StoreCall("save", tape, "get", <<>>, byLobby))

\* deleteTapeFromLibrary(id) up to await get(LIBRARY_KEY)
deleteTapeFromLibrary(id, byLobby) ==
    calls' = Append(calls, StoreCall("delete", ShelfTape(id, "Unknown"),
                                     "get", <<>>, byLobby))

\* clearLibrary() up to await set(LIBRARY_KEY, [])
clearLibrary ==
    calls' = Append(calls, StoreCall("clear", ShelfTape(0, "Unknown"),
                                     "set", <<>>, FALSE))

\* get(LIBRARY_KEY) resolves (an absent key gives the empty list); the call
\* changes the list it got and asks for set(LIBRARY_KEY, library).
StoreGet(i) ==
    /\ i \in 1 .. Len(calls)
    /\ calls[i].pc = "get"
    /\ calls' = [calls EXCEPT
                   ![i].pc = "set",
                   ![i].library =
                       IF calls[i].op = "save"
                       THEN SaveInto(stored, calls[i].tape)
                       ELSE FilterOut(stored, calls[i].tape.id)]
    /\ UNCHANGED <<codecVars, tvVars, build, library, lobbyError,
                   lobbyLoading, lobbyFiles, imports, stored>>

\* set(LIBRARY_KEY, library) resolves and the call returns; the handler of
\* the lobby that awaited it goes on with its setLibrary.
StoreSet(i) ==
    /\ i \in 1 .. Len(calls)
    /\ calls[i].pc = "set"
    /\ stored' = calls[i].library
    /\ calls' = Remove(calls, i)
    /\ library' = (IF ~calls[i].byLobby THEN library
                   ELSE IF calls[i].op = "save"
                   THEN <<calls[i].tape>> \o library
                   ELSE FilterOut(library, calls[i].tape.id))
    /\ UNCHANGED <<codecVars, tvVars, build, lobbyError, lobbyLoading,
                   lobbyFiles, imports>>

\* A caller that runs one call at a time
StoreCalled ==
    /\ calls = <<>>
    /\ \/ \E tape \in ShelfTapes : saveTapeToLibrary(tape, FALSE)
       \/ \E id \in TapeIds : deleteTapeFromLibrary(id, FALSE)
       \/ clearLibrary
    /\ UNCHANGED <<codecVars, tvVars, build, library, lobbyError,
                   lobbyLoading, lobbyFiles, imports, stored>>

InitStore ==
    /\ CodecIdle
    /\ RoomIdle
    /\ LobbyStart(2)

NextStore ==
    \/ StoreCalled
    \/ \E i \in 1 .. Len(calls) : StoreGet(i)
    \/ \E i \in 1 .. Len(calls) : StoreSet(i)

SpecStore == InitStore /\ [][NextStore]_vars

\* onDrop of the lobby has made newTape of a file, its id one no tape had
\* before, and awaits saveTapeToLibrary(newTape).
ShelfDrop ==
    /\ page = "lobby"
    /\ events < MaxCalls
    /\ events' = events + 1
    /\ \E name \in TapeNames :
          saveTapeToLibrary(ShelfTape(events + 1, name), TRUE)
    /\ UNCHANGED <<codecVars, page, gameState, isStarted, settings,
                   locationState, initEffect, loops, drops, files, alerted,
                   crashed, completed, build, library, lobbyError,
                   lobbyLoading, lobbyFiles, imports, stored>>

\* deleteTape of the lobby for a tape it shows, the viewer confirming
ShelfDelete ==
    /\ page = "lobby"
    /\ events < MaxCalls
    /\ events' = events + 1
    /\ \E k \in 1 .. Len(library) : deleteTapeFromLibrary(library[k].id, TRUE)
    /\ UNCHANGED <<codecVars, page, gameState, isStarted, settings,
                   locationState, initEffect, loops, drops, files, alerted,
                   crashed, completed, build, library, lobbyError,
                   lobbyLoading, lobbyFiles, imports, stored>>

NextShelf ==
    \/ LoadLibrary
    \/ ShelfDrop
    \/ ShelfDelete
    \/ \E i \in 1 .. Len(calls) : StoreGet(i)
    \/ \E i \in 1 .. Len(calls) : StoreSet(i)

SpecShelf == InitLobby /\ [][NextShelf]_vars


(***************************************************************************)
(* C25: however saveTapeToLibrary and deleteTapeFromLibrary calls          *)
(* interleave, no call's write-back loses a tape another call saved or     *)
(* brings back one another call deleted, and once every call has           *)
(* completed the library the lobby shows lists the tapes of the stored     *)
(* one.                                                                    *)
(***************************************************************************)
Ids(lib) == {lib[k].id : k \in 1 .. Len(lib)}

\* Call i writes its copy back and returns.
WriteBack(i) ==
    /\ i \in 1 .. Len(calls)
    /\ calls[i].pc = "set"
    /\ stored' = calls[i].library
    /\ calls' = Remove(calls, i)

WriteBackLosesNothing ==
    \A i \in 1 .. Len(calls) :
        WriteBack(i) =>
            Ids(stored') = (IF calls[i].op = "save"
                            THEN Ids(stored) \cup {calls[i].tape.id}
                            ELSE Ids(stored) \ {calls[i].tape.id})

AllCallsCompleted == calls = <<>> /\ ~lobbyLoading

NoSaveLost ==
    /\ [][WriteBackLosesNothing]_vars
    /\ [](AllCallsCompleted => Ids(library) = Ids(stored))

\* Two drops have completed, the lobby shows both tapes and one is stored.
NoSaveLostWitness ==
    /\ AllCallsCompleted
    /\ events = 2
    /\ Ids(library) = {1, 2}
    /\ Cardinality(Ids(stored)) = 1


(***************************************************************************)
(* C26: with the calls of storageService run one at a time from an empty   *)
(* library, no two stored tapes share an id; a save of an id that is       *)
(* stored replaces that entry where it is and leaves length and the other  *)
(* entries alone, a save of a new id puts the tape at the front, a delete  *)
(* removes the entries of its id and no other, keeping the order.          *)
(***************************************************************************)
NoSharedIds ==
    \A j, k \in 1 .. Len(stored) : stored[j].id = stored[k].id => j = k

\* The positions of the stored tapes whose id is not id
Others(id) == {k \in 1 .. Len(stored) : stored[k].id # id}

WriteBackAsCalled ==
    \A i \in 1 .. Len(calls) :
        WriteBack(i) =>
            CASE calls[i].op = "save" ->
                   IF calls[i].tape.id \in Ids(stored)
                   THEN /\ Len(stored') = Len(stored)
                        /\ \A k \in 1 .. Len(stored) :
                              stored'[k] = (IF stored[k].id = calls[i].tape.id
                                            THEN calls[i].tape
                                            ELSE stored[k])
                   ELSE /\ Len(stored') = Len(stored) + 1
                        /\ stored'[1] = calls[i].tape
                        /\ \A k \in 1 .. Len(stored) :
                              stored'[k + 1] = stored[k]
              [] calls[i].op = "delete" ->
                   /\ Len(stored') = Cardinality(Others(calls[i].tape.id))
                   /\ \A k \in Others(calls[i].tape.id) :
                         stored'[Cardinality({m \in Others(calls[i].tape.id) :
                                                 m <= k})] = stored[k]
              [] OTHER -> stored' = <<>>

IdsStayUnique ==
    /\ []NoSharedIds
    /\ [][WriteBackAsCalled]_vars

\* A save of an id that is stored behind another tape has replaced the
\* entry in its copy and waits for its set.
IdsStayUniqueWitness ==
    /\ Len(calls) = 1
    /\ calls[1].op = "save"
    /\ calls[1].pc = "set"
    /\ Len(stored) = 2
    /\ stored[2].id = calls[1].tape.id
    /\ stored[2] # calls[1].tape
    /\ calls[1].library = <<stored[1], calls[1].tape>>


(***************************************************************************)
(* C27.  createChunk(type, data) with a type of 4 bytes returns            *)
(* 12 + len(data) bytes: the length of data as an unsigned 32-bit          *)
(* big-endian number, the type, the data, and the CRC-32 of type ++ data   *)
(* as an unsigned 32-bit big-endian number; the tEXt chunk in the output   *)
(* of createTapeBlob has the length of its data in its length field and    *)
(* the CRC-32 of its type and data in its CRC field.                       *)
(***************************************************************************)
\* The reference over the bytes lo .. hi of a long buffer, by halves
RECURSIVE RefCrcOver(_, _, _, _)
RefCrcOver(bits, buf, lo, hi) ==
    IF lo > hi THEN bits
    ELSE IF lo = hi THEN RefRounds(RefFeed(bits, RefBitsOfByte(buf[lo])), 8)
    ELSE LET half == RefCrcOver(bits, buf, lo, (lo + hi) \div 2)
         IN  IF Len(half) = 32
             THEN RefCrcOver(half, buf, ((lo + hi) \div 2) + 1, hi)
             ELSE half

RefCrcOf(buf) ==
    RefFinal(RefBytes(RefCrcOver(RefOnes, buf, 1, Len(buf))))

\* be_u32 of a length below 2^24
BeU32(n) == <<0, (n \div 65536) % 256, (n \div 256) % 256, n % 256>>

LaidOut(chunk, type, data) ==
    /\ Len(chunk) = 12 + Len(data)
    /\ SubSeq(chunk, 1, 4) = BeU32(Len(data))
    /\ SubSeq(chunk, 5, 8) = type
    /\ SubSeq(chunk, 9, 8 + Len(data)) = data
    /\ SubSeq(chunk, 9 + Len(data), 12 + Len(data)) = RefCrcOf(type \o data)

TapeChunkData == KEYWORD \o <<0>> \o StringifyBytes(stateData)

\* createChunk on no data and on the 13 bytes behind the signature of the
\* argument, for a call that starts (the bytes of a buffer are any bytes),
\* and on the data of the tEXt chunk, when createTapeBlob has made newChunk
ChunkLayout ==
    /\ pc = "signature"
          => \A data \in {<<>>, Slice(uint8, 8, 21)} :
                LaidOut(createChunk(TypeIEND, data), TypeIEND, data)
    /\ (call = "createTapeBlob" /\ pc = "scan" /\ visited = {})
          => LaidOut(newChunk, TypeTEXT, TapeChunkData)
    /\ (EmbedDone /\ result.kind = "blob")
          => /\ RefChunkAt(result.bytes, iendPos)
             /\ RefType(result.bytes, iendPos) = TypeTEXT
             /\ RefLen(result.bytes, iendPos) = Len(TapeChunkData)
             /\ RefData(result.bytes, iendPos) = TapeChunkData
             /\ SubSeq(result.bytes, iendPos + 9 + Len(TapeChunkData),
                       iendPos + 12 + Len(TapeChunkData))
                   = RefCrcOf(TypeTEXT \o TapeChunkData)

\* createTapeBlob has put the chunk of {"b":2} into a carrier: 22 bytes of
\* data, a CRC whose highest bit is set or not as the reference has it.
ChunkLayoutWitness ==
    /\ EmbedDone /\ result.kind = "blob"
    /\ stateData = ValueB2
    /\ Len(newChunk) = 12 + 22
    /\ SubSeq(newChunk, 1, 8) = <<0, 0, 0, 22>> \o TypeTEXT
    /\ SubSeq(newChunk, 31, 34) = RefCrcOf(TypeTEXT \o TapeChunkData)


(***************************************************************************)
(* C28.  crc32 returns an unsigned 32-bit integer: the number a call       *)
(* returns is never negative (and lies below 2^32, as every result of a    *)
(* 32-bit operator does).                                                  *)
(***************************************************************************)
Crc32Returned == call = "crc32" /\ pc = "done"

CrcUnsigned ==
    Crc32Returned => result.state.n >= 0

\* crc32 of "a", 0xE8B7BE43 as an unsigned number, has come back as
\* 0xE8B7BE43 - 2^32.
CrcUnsignedWitness ==
    /\ Crc32Returned
    /\ uint8 = <<97>>
    /\ result.state.n = -390611389
    /\ BytesOfInt32(result.state.n) = <<232, 183, 190, 67>>

====
